---------------------------- MODULE Spec2Model ----------------------------
(***************************************************************************)
(* A model of metco, a metrics aggregation daemon: the wire protocol       *)
(* parser (src/src/protocol.rs), the registry and its statistics           *)
(* (src/src/metrics.rs) and the ingest loop with its per-flush publisher   *)
(* threads (src/src/main.rs).                                              *)
(*                                                                         *)
(* Text is a sequence of one-character strings.  Machine integers have   *)
(* the width of the program, 64 bits: as TLC's own integers are 32 bits    *)
(* wide, a u64 or i64 value is a wide integer, a sign and the limbs of its *)
(* magnitude in radix 2^15, and every operation that can overflow is       *)
(* modelled with its overflow.  The f64 fields of Statistics (std,         *)
(* average, median) are left out.                                          *)
(***************************************************************************)
EXTENDS Integers, Sequences, FiniteSets, TLC

(***************************************************************************)
(* Bounds of the model.                                                    *)
(***************************************************************************)
\* datagrams received in one run
MaxDatagrams == 2
\* flushes (publisher threads spawned) in one run
MaxFlushes == 2
\* the last tick of the clock
MaxClock == 4

Min(a, b) == IF a <= b THEN a ELSE b

Max(a, b) == IF a >= b THEN a ELSE b

(***************************************************************************)
(* Wide integers: [neg, mag], mag the limbs of the magnitude from the      *)
(* least significant one, with no zero limb at the top; zero is not        *)
(* negative.  Equal numbers are equal values.                              *)
(***************************************************************************)
LimbRadix == 2 ^ 15

\* the element of a singleton: in The({ e(x) : x \in {v} }) the value v is computed
\* once, however often e uses it (also where ENABLED is evaluated)
The(S) == CHOOSE x \in S : TRUE

RECURSIVE Trim(_)
\* the limbs without the zero limbs at the top
Trim(m) == IF Len(m) > 0 /\ m[Len(m)] = 0 THEN Trim(SubSeq(m, 1, Len(m) - 1)) ELSE m

Limb(m, i) == IF i <= Len(m) THEN m[i] ELSE 0

RECURSIVE NatLimbs(_)
\* the limbs of a natural number of TLC
NatLimbs(n) == IF n = 0 THEN << >> ELSE <<n % LimbRadix>> \o NatLimbs(n \div LimbRadix)

\* the wide integer of an integer of TLC
Wide(n) ==
    IF n < 0 THEN [neg |-> TRUE, mag |-> NatLimbs(-n)]
    ELSE [neg |-> FALSE, mag |-> NatLimbs(n)]

RECURSIVE MagCmpFrom(_, _, _)
MagCmpFrom(a, b, i) ==
    IF i = 0 THEN 0
    ELSE IF a[i] < b[i] THEN -1
    ELSE IF a[i] > b[i] THEN 1
    ELSE MagCmpFrom(a, b, i - 1)

\* -1, 0 or 1 as magnitude a is below, equal to or above magnitude b
MagCmp(a, b) ==
    IF Len(a) < Len(b) THEN -1
    ELSE IF Len(a) > Len(b) THEN 1
    ELSE MagCmpFrom(a, b, Len(a))

RECURSIVE MagAddFrom(_, _, _, _)
MagAddFrom(a, b, i, carry) ==
    IF i > Len(a) /\ i > Len(b) THEN (IF carry = 0 THEN << >> ELSE <<carry>>)
    ELSE LET sum == Limb(a, i) + Limb(b, i) + carry
         IN  <<sum % LimbRadix>> \o MagAddFrom(a, b, i + 1, sum \div LimbRadix)

MagAdd(a, b) == The({ Trim(sum) : sum \in {MagAddFrom(a, b, 1, 0)} })

RECURSIVE MagSubFrom(_, _, _, _)
MagSubFrom(a, b, i, borrow) ==
    IF i > Len(a) THEN << >>
    ELSE LET d == a[i] - Limb(b, i) - borrow
         IN  <<(d + LimbRadix) % LimbRadix>>
                 \o MagSubFrom(a, b, i + 1, IF d < 0 THEN 1 ELSE 0)

\* a - b for magnitudes with a at least b
MagSub(a, b) == Trim(MagSubFrom(a, b, 1, 0))

RECURSIVE MagMulLimbFrom(_, _, _, _)
MagMulLimbFrom(a, k, i, carry) ==
    IF i > Len(a) THEN (IF carry = 0 THEN << >> ELSE <<carry>>)
    ELSE LET p == a[i] * k + carry
         IN  <<p % LimbRadix>> \o MagMulLimbFrom(a, k, i + 1, p \div LimbRadix)

\* a * k for one limb k
MagMulLimb(a, k) == The({ Trim(product) : product \in {MagMulLimbFrom(a, k, 1, 0)} })

RECURSIVE MagMulFrom(_, _, _)
MagMulFrom(a, b, j) ==
    IF j > Len(b) THEN << >>
    ELSE The({ MagAdd(low, high) : low \in {MagMulLimb(a, b[j])},
                                   high \in {<<0>> \o MagMulFrom(a, b, j + 1)} })

MagMul(a, b) == The({ Trim(MagMulFrom(x, y, 1)) : x \in {a}, y \in {b} })

RECURSIVE MagDivLimbFrom(_, _, _, _)
MagDivLimbFrom(a, k, i, rem) ==
    IF i > Len(a) THEN [q |-> << >>, r |-> rem]
    ELSE LET j == Len(a) + 1 - i
             cur == rem * LimbRadix + a[j]
             rest == MagDivLimbFrom(a, k, i + 1, cur % k)
         IN  [q |-> Append(rest.q, cur \div k), r |-> rest.r]

\* quotient and remainder of magnitude a by one limb k > 0
MagDivLimb(a, k) ==
    LET d == MagDivLimbFrom(a, k, 1, 0)
    IN  [q |-> Trim(d.q), r |-> d.r]

WNeg(a) == IF a.mag = << >> THEN a ELSE [a EXCEPT !.neg = ~@]

WAdd(a, b) ==
    IF a.neg = b.neg THEN [neg |-> a.neg, mag |-> MagAdd(a.mag, b.mag)]
    ELSE LET c == MagCmp(a.mag, b.mag)
         IN  IF c = 0 THEN Wide(0)
             ELSE IF c > 0 THEN [neg |-> a.neg, mag |-> MagSub(a.mag, b.mag)]
             ELSE [neg |-> b.neg, mag |-> MagSub(b.mag, a.mag)]

WSub(a, b) == WAdd(a, WNeg(b))

WMul(a, b) ==
    The({ [neg |-> m # << >> /\ a.neg # b.neg, mag |-> m] : m \in {MagMul(a.mag, b.mag)} })

\* -1, 0 or 1 as a is below, equal to or above b
WCmp(a, b) ==
    IF a.neg /\ ~b.neg THEN -1
    ELSE IF ~a.neg /\ b.neg THEN 1
    ELSE IF a.neg THEN MagCmp(b.mag, a.mag)
    ELSE MagCmp(a.mag, b.mag)

WLt(a, b) == WCmp(a, b) < 0

WLe(a, b) == WCmp(a, b) <= 0

\* 2^n
Pow2(n) ==
    [neg |-> FALSE,
     mag |-> [i \in 1..((n \div 15) + 1) |-> IF i = (n \div 15) + 1 THEN 2 ^ (n % 15) ELSE 0]]

\* u64::MAX, i64::MAX and i64::MIN
U64_MAX == WSub(Pow2(64), Wide(1))
I64_MAX == WSub(Pow2(63), Wide(1))
I64_MIN == WNeg(Pow2(63))

\* a non-negative wide integer modulo 2^64: four limbs and four bits of the fifth
WrapU64(a) ==
    IF Len(a.mag) < 5 THEN a
    ELSE [neg |-> FALSE, mag |-> Trim(SubSeq(a.mag, 1, 4) \o <<a.mag[5] % 16>>)]

(***************************************************************************)
(* Machine arithmetic.                                                     *)
(***************************************************************************)
\* u64::checked_add: the sum, or overflow
U64CheckedAdd(a, b) ==
    LET sum == WAdd(a, b)
    IN  IF WLt(U64_MAX, sum) THEN [ok |-> FALSE, val |-> Wide(0)]
        ELSE [ok |-> TRUE, val |-> sum]

\* i64::checked_add: the sum, or overflow
I64CheckedAdd(a, b) ==
    LET sum == WAdd(a, b)
    IN  IF WLt(I64_MAX, sum) \/ WLt(sum, I64_MIN) THEN [ok |-> FALSE, val |-> Wide(0)]
        ELSE [ok |-> TRUE, val |-> sum]

\* u64::wrapping_add
U64WrappingAdd(a, b) == WrapU64(WAdd(a, b))

\* u64::wrapping_mul: what a * b leaves in a build without overflow checks
U64WrappingMul(a, b) == The({ WrapU64(product) : product \in {WMul(a, b)} })

\* whether a * b leaves the u64
U64MulOverflows(a, b) == \E product \in {WMul(a, b)} : WLt(U64_MAX, product)

(***************************************************************************)
(* Text.                                                                   *)
(***************************************************************************)
NUL == "NUL"
LF == "\n"
BAR == "|"
BACKSLASH == "\\"
\* a byte that is not valid UTF-8
BAD_BYTE == "0xFF"

Digits == {"0", "1", "2", "3", "4", "5", "6", "7", "8", "9"}

DigitVal(c) ==
    CASE c = "0" -> 0 [] c = "1" -> 1 [] c = "2" -> 2 [] c = "3" -> 3 [] c = "4" -> 4
      [] c = "5" -> 5 [] c = "6" -> 6 [] c = "7" -> 7 [] c = "8" -> 8 [] c = "9" -> 9

DigitChar(d) == <<"0", "1", "2", "3", "4", "5", "6", "7", "8", "9">>[d + 1]

RECURSIVE MagToDecimal(_)
MagToDecimal(m) ==
    LET d == MagDivLimb(m, 10)
    IN  IF d.q = << >> THEN <<DigitChar(d.r)>>
        ELSE Append(MagToDecimal(d.q), DigitChar(d.r))

\* the decimal text of a wide integer that is not negative
ToDecimal(n) == MagToDecimal(n.mag)

\* s from position p (1-based) to its end
From(s, p) == SubSeq(s, p, Len(s))

\* whether text t stands in s at position p
StartsWith(s, p, t) ==
    /\ p + Len(t) - 1 <= Len(s)
    /\ \A k \in 1..Len(t) : s[p + k - 1] = t[k]

(***************************************************************************)
(* Metric events (metrics.rs).  A MetricKind is a record of one shape:     *)
(* the fields a variant does not carry hold "-" or 0.                      *)
(***************************************************************************)
Seconds == "Seconds"
MilliSeconds == "MilliSeconds"
MicroSeconds == "MicroSeconds"
NanoSeconds == "NanoSeconds"

Counter(v) == [kind |-> "Counter", op |-> "-", value |-> v, resolution |-> "-"]

Timing(v, r) == [kind |-> "Timing", op |-> "-", value |-> v, resolution |-> r]

GaugeSet(v) == [kind |-> "Gauge", op |-> "Set", value |-> v, resolution |-> "-"]

GaugeModify(v) == [kind |-> "Gauge", op |-> "Modify", value |-> v, resolution |-> "-"]

GaugeRemove == [kind |-> "Gauge", op |-> "Remove", value |-> Wide(0), resolution |-> "-"]

Metric(name, kind) == [name |-> name, kind |-> kind]

(***************************************************************************)
(* The parser (protocol.rs).  A parser takes the text s and the position p *)
(* of the input that is left, and yields a ParseOk with the position after *)
(* what it consumed, or ParseError (nom's recoverable Err::Error: none of  *)
(* the parsers used here yields Err::Failure).                             *)
(***************************************************************************)
ParseOk(next, val) == [ok |-> TRUE, next |-> next, val |-> val]

ParseError == [ok |-> FALSE, next |-> 0, val |-> 0]

RECURSIVE AccumulateUpSaturating(_, _, _, _)
\* the accumulation that stops at the largest value in place of failing
AccumulateUpSaturating(ds, k, acc, max) ==
    IF k > Len(ds) THEN [ok |-> TRUE, val |-> acc]
    ELSE LET next == WAdd(WMul(acc, Wide(10)), Wide(DigitVal(ds[k])))
         IN  IF WLt(max, next) THEN [ok |-> TRUE, val |-> max]
             ELSE AccumulateUpSaturating(ds, k + 1, next, max)

RECURSIVE AccumulateUp(_, _, _, _)
\* str::parse of a run of digits into an unsigned or non-negative integer with
\* largest value max: the digits are accumulated with checked arithmetic
AccumulateUp(ds, k, acc, max) ==
    IF k > Len(ds) THEN [ok |-> TRUE, val |-> acc]
    ELSE LET next == WAdd(WMul(acc, Wide(10)), Wide(DigitVal(ds[k])))
         IN  IF WLt(max, next) THEN [ok |-> FALSE, val |-> Wide(0)]
             ELSE AccumulateUp(ds, k + 1, next, max)

RECURSIVE AccumulateDown(_, _, _, _)
\* str::parse of "-" and a run of digits into a signed integer with least value min
AccumulateDown(ds, k, acc, min) ==
    IF k > Len(ds) THEN [ok |-> TRUE, val |-> acc]
    ELSE LET next == WSub(WMul(acc, Wide(10)), Wide(DigitVal(ds[k])))
         IN  IF WLt(next, min) THEN [ok |-> FALSE, val |-> Wide(0)]
             ELSE AccumulateDown(ds, k + 1, next, min)

\* input.parse::<u64>() of a run of digits
ParseU64(ds) == AccumulateUp(ds, 1, Wide(0), U64_MAX)

\* input.parse::<i64>() of a run of digits, with or without a leading "-"
ParseI64(t) ==
    IF Len(t) > 0 /\ t[1] = "-"
    THEN AccumulateDown(From(t, 2), 1, Wide(0), I64_MIN)
    ELSE AccumulateUp(t, 1, Wide(0), I64_MAX)

RECURSIVE DigitsEnd(_, _)
\* the position after the run of digits that starts at p
DigitsEnd(s, p) == IF p <= Len(s) /\ s[p] \in Digits THEN DigitsEnd(s, p + 1) ELSE p

\* nom digit1: one or more digits
digit1(s, p) ==
    LET e == DigitsEnd(s, p)
    IN  IF e = p THEN ParseError ELSE ParseOk(e, SubSeq(s, p, e - 1))

\* nom tag / char: the literal text t
tag(s, p, t) == IF StartsWith(s, p, t) THEN ParseOk(p + Len(t), t) ELSE ParseError

\* a parser followed by what is done with its result: the ? of an IResult
Then(r, F(_)) == IF r.ok THEN F(r) ELSE ParseError

\* nom alt of two parsers, given the results of both on the same input
Alt(a, b) == IF a.ok THEN a ELSE b

\* nom map_res: a recognised text d converted by a str::parse, n its result
MapRes(d, n) == IF n.ok THEN ParseOk(d.next, n.val) ELSE ParseError

\* map_res(digit1, into_u64)
digit1_u64(s, p) == Then(digit1(s, p), LAMBDA d : MapRes(d, ParseU64(d.val)))

\* map_res(digit1, into_i64)
digit1_i64(s, p) == Then(digit1(s, p), LAMBDA d : MapRes(d, ParseI64(d.val)))

parse_counter(s, p) ==
    Then(tag(s, p, <<"c", BAR>>), LAMBDA t :
    Then(digit1_u64(s, t.next), LAMBDA n : ParseOk(n.next, Counter(n.val))))

\* alt((value(NanoSeconds, tag("ns")), value(MilliSeconds, tag("ms")),
\*      value(MicroSeconds, tag("us")), value(Seconds, tag("s"))))
parse_resolution(s, p) ==
    IF StartsWith(s, p, <<"n", "s">>) THEN ParseOk(p + 2, NanoSeconds)
    ELSE IF StartsWith(s, p, <<"m", "s">>) THEN ParseOk(p + 2, MilliSeconds)
    ELSE IF StartsWith(s, p, <<"u", "s">>) THEN ParseOk(p + 2, MicroSeconds)
    ELSE IF StartsWith(s, p, <<"s">>) THEN ParseOk(p + 1, Seconds)
    ELSE ParseError

\* tuple((map_res(digit1, into_u64), char('|'), alt(...))) mapped to Timing
parse_timing_with_unit(s, p) ==
    Then(digit1_u64(s, p), LAMBDA n :
    Then(tag(s, n.next, <<BAR>>), LAMBDA b :
    Then(parse_resolution(s, b.next), LAMBDA r : ParseOk(r.next, Timing(n.val, r.val)))))

\* map_res(digit1, into_u64_timing)
parse_timing_default(s, p) ==
    Then(digit1_u64(s, p), LAMBDA n : ParseOk(n.next, Timing(n.val, MilliSeconds)))

parse_timing(s, p) ==
    Then(tag(s, p, <<"t", BAR>>), LAMBDA t :
    Alt(parse_timing_with_unit(s, t.next), parse_timing_default(s, t.next)))

\* recognize(tuple((tag("-"), digit1))): the text of "-" and the digits
recognize_negative(s, p) ==
    Then(tag(s, p, <<"-">>), LAMBDA m :
    Then(digit1(s, m.next), LAMBDA d : ParseOk(d.next, SubSeq(s, p, d.next - 1))))

\* map_res(alt((recognize(tuple((tag("-"), digit1))), digit1)), into_i64_set)
parse_gauge_set(s, p) ==
    Then(Alt(recognize_negative(s, p), digit1(s, p)), LAMBDA t :
    Then(MapRes(t, ParseI64(t.val)), LAMBDA n : ParseOk(n.next, GaugeSet(n.val))))

\* the Modify parser with the magnitude parsed as a u64 and the sign applied after
parse_gauge_modify_u64(s, p) ==
    Then(Alt(tag(s, p, <<"+">>), tag(s, p, <<"-">>)), LAMBDA sign :
    Then(tag(s, sign.next, <<"=">>), LAMBDA eq :
    Then(digit1_u64(s, eq.next), LAMBDA n :
         ParseOk(n.next, GaugeModify(IF sign.val = <<"+">> THEN n.val ELSE WNeg(n.val))))))

\* tuple((alt((char('+'), char('-'))), char('='), map_res(digit1, into_i64)))
\* mapped to Modify(value) for '+' and Modify(-value) for '-'
parse_gauge_modify(s, p) ==
    Then(Alt(tag(s, p, <<"+">>), tag(s, p, <<"-">>)), LAMBDA sign :
    Then(tag(s, sign.next, <<"=">>), LAMBDA eq :
    Then(digit1_i64(s, eq.next), LAMBDA n :
         ParseOk(n.next, GaugeModify(IF sign.val = <<"+">> THEN n.val ELSE WNeg(n.val))))))

\* map(char('x'), |_| GaugeOperation::Remove)
parse_gauge_remove(s, p) ==
    Then(tag(s, p, <<"x">>), LAMBDA x : ParseOk(x.next, GaugeRemove))

parse_gauge(s, p) ==
    Then(tag(s, p, <<"g", BAR>>), LAMBDA t :
    Alt(parse_gauge_remove(s, t.next),
        Alt(parse_gauge_set(s, t.next), parse_gauge_modify(s, t.next))))

parse_kind(s, p) == Alt(parse_counter(s, p), Alt(parse_timing(s, p), parse_gauge(s, p)))

\* nom is_not("|\\"): the position after the longest run of bytes that are
\* neither '|' nor '\'
IsNotEnd(s, p) ==
    LET stops == {j \in p..Len(s) : s[j] \in {BAR, BACKSLASH}}
    IN  IF stops = {} THEN Len(s) + 1 ELSE CHOOSE j \in stops : \A k \in stops : j <= k

RECURSIVE EscapedTransformLoop(_, _, _, _)
\* the loop of nom's escaped_transform(is_not("|\\"), '\\', alt(("\\", "|")))
\* on the input that starts at position start, at position index of it
EscapedTransformLoop(s, start, index, res) ==
    IF index > Len(s) THEN ParseOk(index, res)
    ELSE LET e == IsNotEnd(s, index)
         IN  IF e > index
             THEN \* normal matched
                  IF e > Len(s) THEN ParseOk(Len(s) + 1, res \o SubSeq(s, index, e - 1))
                  ELSE EscapedTransformLoop(s, start, e, res \o SubSeq(s, index, e - 1))
             ELSE IF s[index] = BACKSLASH
                  THEN IF index + 1 > Len(s) THEN ParseError
                       ELSE IF s[index + 1] \in {BACKSLASH, BAR}
                            THEN IF index + 2 > Len(s)
                                 THEN ParseOk(Len(s) + 1, Append(res, s[index + 1]))
                                 ELSE EscapedTransformLoop(s, start, index + 2,
                                                           Append(res, s[index + 1]))
                            ELSE ParseError
                  ELSE IF index = start THEN ParseError ELSE ParseOk(index, res)

parse_metric(s, p) ==
    Then(EscapedTransformLoop(s, p, p, << >>), LAMBDA name :
    Then(tag(s, name.next, <<BAR>>), LAMBDA b :
    Then(parse_kind(s, b.next), LAMBDA k : ParseOk(k.next, Metric(name.val, k.val)))))

RECURSIVE SeparatedListStrictLoop(_, _, _)
\* a list loop that fails as a whole when an element after a separator fails
SeparatedListStrictLoop(s, p, res) ==
    LET sep == tag(s, p, <<LF>>)
        m == Then(sep, LAMBDA x : parse_metric(s, x.next))
    IN  IF ~sep.ok THEN ParseOk(p, res)
        ELSE IF ~m.ok THEN ParseError
        ELSE SeparatedListStrictLoop(s, m.next, Append(res, m.val))

RECURSIVE SeparatedListLoop(_, _, _)
\* the loop of nom's separated_list1(char('\n'), parse_metric) after the first
\* element: an error of the separator or of an element ends the list with what
\* was parsed so far, the input left being that before the separator
SeparatedListLoop(s, p, res) ==
    LET m == Then(tag(s, p, <<LF>>), LAMBDA sep : parse_metric(s, sep.next))
    IN  IF ~m.ok THEN ParseOk(p, res)
        ELSE SeparatedListLoop(s, m.next, Append(res, m.val))

\* nom separated_list1: an error of the first element is the error of the list
separated_list1(s, p) ==
    Then(parse_metric(s, p), LAMBDA first :
         SeparatedListLoop(s, first.next, <<first.val>>))

\* parse_protocol with the input that was left over: the program drops it
parse_protocol_rest(s) == separated_list1(s, 1)

\* parse_protocol that wants the whole input consumed (nom's all_consuming)
parse_protocol_all_consuming(s) ==
    LET r == parse_protocol_rest(s)
    IN  IF r.ok /\ r.next > Len(s) THEN r.val ELSE << >>

\* parse_protocol: the metrics of the list, or none when the list is an error
parse_protocol(s) ==
    LET r == parse_protocol_rest(s)
    IN  IF r.ok THEN r.val ELSE << >>

(***************************************************************************)
(* Statistics, TimeFrame and Registry (metrics.rs).  A HashMap is a        *)
(* function whose domain is the set of its keys.                           *)
(***************************************************************************)
EmptyMap == [k \in {} |-> 0]

MapInsert(m, k, v) == [x \in (DOMAIN m) \cup {k} |-> IF x = k THEN v ELSE m[x]]

MapRemove(m, k) == [x \in (DOMAIN m) \ {k} |-> m[x]]

\* HashMap::entry(k).or_default(): the map with k present
MapEntryOrDefault(m, k, default) == IF k \in DOMAIN m THEN m ELSE MapInsert(m, k, default)

RECURSIVE WrappingSum(_, _, _)
\* the sum with wrapping_add in place of checked_add: it never fails
WrappingSum(list, k, sum) ==
    IF k > Len(list) THEN [ok |-> TRUE, val |-> sum]
    ELSE WrappingSum(list, k + 1, U64WrappingAdd(sum, list[k]))

RECURSIVE CheckedSum(_, _, _)
\* the loop of Statistics::new: sum.checked_add(item) over the list
CheckedSum(list, k, sum) ==
    IF k > Len(list) THEN [ok |-> TRUE, val |-> sum]
    ELSE LET r == U64CheckedAdd(sum, list[k])
         IN  IF r.ok THEN CheckedSum(list, k + 1, r.val) ELSE [ok |-> FALSE, val |-> Wide(0)]

\* Statistics::new: panics on an empty list, fails when the sum overflows
Statistics_new(list) ==
    IF Len(list) = 0 THEN [panicked |-> TRUE, ok |-> FALSE, list |-> << >>, sum |-> Wide(0)]
    ELSE LET sorted == SortSeq(list, LAMBDA a, b : WLt(a, b))
             sum == CheckedSum(sorted, 1, Wide(0))
         IN  IF sum.ok
             THEN [panicked |-> FALSE, ok |-> TRUE, list |-> sorted, sum |-> sum.val]
             ELSE [panicked |-> FALSE, ok |-> FALSE, list |-> << >>, sum |-> Wide(0)]

Statistics_sum(st) == st.sum

Statistics_count(st) == Len(st.list)

\* the index Statistics::percentile reads, for p = num / den (den a power of two,
\* so that p and count * p are exact in f64):
\* ((len as f64 * p.max(0.).min(1.)).floor() as usize).min(len)
PercentileIndex(len, num, den) ==
    LET clamped == Min(Max(num, 0), den)
    IN  Min((len * clamped) \div den, len)

\* Statistics::percentile(p) for p = num / den: the element at the index, or the
\* panic of an index out of bounds
Statistics_percentile(st, num, den) ==
    LET idx == PercentileIndex(Len(st.list), num, den)
    IN  IF idx >= Len(st.list) THEN [panicked |-> TRUE, val |-> Wide(0)]
        ELSE [panicked |-> FALSE, val |-> st.list[idx + 1]]

EmptyRegistry == [counters |-> EmptyMap, gauges |-> EmptyMap, timings |-> EmptyMap]

SecondsFactor == 1000000000
MilliSecondsFactor == 1000000
MicroSecondsFactor == 1000
NanoSecondsFactor == 1

ResolutionFactor(r) ==
    CASE r = Seconds -> SecondsFactor
      [] r = MilliSeconds -> MilliSecondsFactor
      [] r = MicroSeconds -> MicroSecondsFactor
      [] r = NanoSeconds -> NanoSecondsFactor

AddResult(reg, ok, panicked) == [registry |-> reg, ok |-> ok, panicked |-> panicked]

\* the Counter arm putting the value in front of the list
AddCounterInFront(reg, name, v) ==
    LET m == MapEntryOrDefault(reg.counters, name, << >>)
    IN  AddResult([reg EXCEPT !.counters = MapInsert(m, name, <<v>> \o m[name])],
                  TRUE, FALSE)

\* Registry::add, Counter arm
AddCounter(reg, name, v) ==
    LET m == MapEntryOrDefault(reg.counters, name, << >>)
    IN  AddResult([reg EXCEPT !.counters = MapInsert(m, name, Append(m[name], v))],
                  TRUE, FALSE)

\* the Timing arm pushing the value as it came, in its own unit
AddTimingUnscaled(reg, name, v, r, overflow_checks) ==
    LET m == MapEntryOrDefault(reg.timings, name, << >>)
    IN  AddResult([reg EXCEPT !.timings = MapInsert(m, name, Append(m[name], v))],
                  TRUE, FALSE)

\* Registry::add, Timing arm.  The product is a plain u64 multiplication: when it
\* overflows, a build with overflow checks panics (after the entry was created)
\* and a build without them stores the wrapped product.
AddTiming(reg, name, v, r, overflow_checks) ==
    LET m == MapEntryOrDefault(reg.timings, name, << >>)
        f == ResolutionFactor(r)
    IN  IF U64MulOverflows(v, Wide(f)) /\ overflow_checks
        THEN AddResult([reg EXCEPT !.timings = m], FALSE, TRUE)
        ELSE AddResult([reg EXCEPT !.timings =
                            MapInsert(m, name, Append(m[name], U64WrappingMul(v, Wide(f))))],
                       TRUE, FALSE)

\* the Modify arm with wrapping_add in place of checked_add
AddGaugeModifyWrapping(reg, name, v) ==
    LET m == MapEntryOrDefault(reg.gauges, name, Wide(0))
        wrapped == WAdd(WrapU64(WAdd(WSub(WAdd(m[name], v), I64_MIN), Pow2(64))), I64_MIN)
    IN  AddResult([reg EXCEPT !.gauges = MapInsert(m, name, wrapped)], TRUE, FALSE)

\* the Modify arm storing the delta in place of the sum
AddGaugeModifySetting(reg, name, v) ==
    LET m == MapEntryOrDefault(reg.gauges, name, Wide(0))
    IN  AddResult([reg EXCEPT !.gauges = MapInsert(m, name, v)], TRUE, FALSE)

\* the Modify arm that leaves an absent gauge absent
AddGaugeModifyPresentOnly(reg, name, v) ==
    IF name \notin DOMAIN reg.gauges THEN AddResult(reg, TRUE, FALSE)
    ELSE LET sum == I64CheckedAdd(reg.gauges[name], v)
         IN  IF ~sum.ok THEN AddResult(reg, FALSE, FALSE)
             ELSE AddResult([reg EXCEPT !.gauges = MapInsert(reg.gauges, name, sum.val)],
                            TRUE, FALSE)

\* Registry::add, Gauge(Modify) arm
AddGaugeModify(reg, name, v) ==
    LET m == MapEntryOrDefault(reg.gauges, name, Wide(0))
        sum == I64CheckedAdd(m[name], v)
    IN  IF ~sum.ok THEN AddResult([reg EXCEPT !.gauges = m], FALSE, FALSE)
        ELSE AddResult([reg EXCEPT !.gauges = MapInsert(m, name, sum.val)], TRUE, FALSE)

\* add whose Remove arm stores 0 in place of removing the gauge
Registry_add_zeroing(reg, metric, overflow_checks) ==
    LET name == metric.name
        k == metric.kind
    IN  CASE k.kind = "Counter" -> AddCounter(reg, name, k.value)
          [] k.kind = "Timing" -> AddTiming(reg, name, k.value, k.resolution, overflow_checks)
          [] k.kind = "Gauge" /\ k.op = "Set" ->
                AddResult([reg EXCEPT !.gauges = MapInsert(reg.gauges, name, k.value)],
                          TRUE, FALSE)
          [] k.kind = "Gauge" /\ k.op = "Modify" -> AddGaugeModify(reg, name, k.value)
          [] k.kind = "Gauge" /\ k.op = "Remove" ->
                AddResult([reg EXCEPT !.gauges = MapInsert(reg.gauges, name, Wide(0))], TRUE, FALSE)

\* Registry::add
Registry_add(reg, metric, overflow_checks) ==
    LET name == metric.name
        k == metric.kind
    IN  CASE k.kind = "Counter" -> AddCounter(reg, name, k.value)
          [] k.kind = "Timing" -> AddTiming(reg, name, k.value, k.resolution, overflow_checks)
          [] k.kind = "Gauge" /\ k.op = "Set" ->
                AddResult([reg EXCEPT !.gauges = MapInsert(reg.gauges, name, k.value)],
                          TRUE, FALSE)
          [] k.kind = "Gauge" /\ k.op = "Modify" -> AddGaugeModify(reg, name, k.value)
          [] k.kind = "Gauge" /\ k.op = "Remove" ->
                AddResult([reg EXCEPT !.gauges = MapRemove(reg.gauges, name)], TRUE, FALSE)

\* new_with_gauges that forgets the gauges (Registry::default())
Registry_new_without_gauges(reg) == EmptyRegistry

\* new_with_gauges that clears the sample lists and keeps their names
Registry_new_with_cleared_lists(reg) ==
    [counters |-> [n \in DOMAIN reg.counters |-> << >>],
     gauges |-> reg.gauges,
     timings |-> [n \in DOMAIN reg.timings |-> << >>]]

\* Registry::new_with_gauges
Registry_new_with_gauges(reg) == [EmptyRegistry EXCEPT !.gauges = reg.gauges]

\* the fold of TimeFrame::try_from over one map of sample lists: the series whose
\* Statistics::new succeeds
FoldStatistics(series) ==
    LET kept == {n \in DOMAIN series : Statistics_new(series[n]).ok}
    IN  [n \in kept |-> LET st == Statistics_new(series[n])
                        IN  [list |-> st.list, sum |-> st.sum]]

\* TimeFrame::try_from(Registry), which never fails
TimeFrame_try_from(reg) ==
    [gauges |-> reg.gauges,
     counters |-> FoldStatistics(reg.counters),
     timings |-> FoldStatistics(reg.timings)]

\* Registry::finalize: Some(frame), or the panic of Statistics::new on an empty list
Registry_finalize(reg) ==
    [panicked |-> \/ \E n \in DOMAIN reg.counters : Len(reg.counters[n]) = 0
                  \/ \E n \in DOMAIN reg.timings : Len(reg.timings[n]) = 0,
     some |-> TRUE,
     frame |-> TimeFrame_try_from(reg)]

(***************************************************************************)
(* The daemon (main.rs): the ingest loop of main, and one publisher thread *)
(* per flush.                                                              *)
(***************************************************************************)
VARIABLES
    overflow_checks, \* whether the build panics on integer overflow (a debug build)
    pc,              \* the ingest loop: "loop", "recv", "apply", "panicked", "exited"
    registry,        \* main's live Registry
    pending,         \* the metrics of the current datagram not yet added
    clock,           \* the time, in ticks
    now,             \* main's `now`: the Instant of the last flush
    timeout,         \* the socket's read timeout, NoTimeout or a duration
    recv_start,      \* the time at which the current recv was entered
    workers,         \* the publisher threads, in spawn order
    frame_no,        \* history: the number of the live registry (1 + flushes)
    accepted,        \* history: the counter and timing samples add returned true for
    touched,         \* history: <<frame, name>> of the gauge operations applied
    received,        \* history: the number of datagrams received
    call, result     \* a call of a pure function and what it returned

daemon_vars == <<overflow_checks, pc, registry, pending, clock, now, timeout,
                 recv_start, workers, frame_no, accepted, touched, received>>

vars == <<overflow_checks, pc, registry, pending, clock, now, timeout, recv_start,
          workers, frame_no, accepted, touched, received, call, result>>

\* config.refresh_interval, in ticks
RefreshInterval == 2

\* config.backends.enabled: (name, backend) in list order
Enabled == <<[name |-> "db", type |-> "postgresql"], [name |-> "out", type |-> "console"]>>

\* the size of main's receive buffer
BUFF_SIZE == 2048

\* Option<Duration>
NoTimeout == [some |-> FALSE, duration |-> 0]

SomeTimeout(d) == [some |-> TRUE, duration |-> d]

\* the receive buffer after recv wrote a datagram into it: [0; 2048] overwritten
Buffer(datagram) ==
    [i \in 1..BUFF_SIZE |-> IF i <= Len(datagram) THEN datagram[i] ELSE NUL]

\* std::str::from_utf8(&buff).is_ok()
ValidUtf8(buff) == \A i \in 1..Len(buff) : buff[i] # BAD_BYTE

\* what main's Ok(_) arm iterates over: nothing for a payload that is not UTF-8
\* (continue), else parse_protocol of the whole buffer
MetricsOfDatagram(datagram) ==
    LET buff == Buffer(datagram)
    IN  IF ValidUtf8(buff) THEN parse_protocol(buff) ELSE << >>

\* the texts of the model's datagrams
TextCounterOne == <<"a", BAR, "c", BAR, "1">>
TextCounterMax == <<"a", BAR, "c", BAR>> \o ToDecimal(U64_MAX)
TextTimingMicro == <<"a", BAR, "t", BAR, "3", BAR, "u", "s">>
TextTimingOverflow == <<"a", BAR, "t", BAR>> \o ToDecimal(U64_MAX) \o <<BAR, "s">>
TextGaugeSetMax == <<"g", BAR, "g", BAR>> \o ToDecimal(I64_MAX)
TextGaugeSetOther == <<"h", BAR, "g", BAR, "-", "7">>
TextGaugeIncrement == <<"g", BAR, "g", BAR, "+", "=", "1">>
TextGaugeRemove == <<"g", BAR, "g", BAR, "x">>
TextGarbage == <<"a", BAR, "q", BAR, "1">>

Datagrams ==
    { TextCounterOne,
      TextCounterMax \o <<LF>> \o TextCounterOne,
      TextTimingMicro \o <<LF>>,
      TextTimingOverflow,
      TextGaugeSetMax \o <<LF>> \o TextGaugeSetOther,
      TextGaugeIncrement \o <<LF>> \o TextCounterOne,
      TextGaugeRemove,
      TextCounterOne \o <<LF>> \o TextGarbage,
      TextGarbage,
      <<"a", BAD_BYTE>> \o TextCounterOne }

\* MetricsOfDatagram of every datagram of the model, evaluated once
MetricsTable == [d \in Datagrams |-> MetricsOfDatagram(d)]

\* the closure handed to thread::spawn, about to run, owning the outgoing registry
SpawnedWorker(reg, no) ==
    [frame_no |-> no, registry |-> reg, pc |-> "instantiate", next |-> 1,
     backends |-> << >>, failed |-> {}, time |-> 0, finalized |-> 0,
     frame |-> TimeFrame_try_from(EmptyRegistry), published |-> << >>]

\* spawn followed by join: the closure has run to its end when spawn returns
spawn_and_join(ws, reg, no) ==
    Append(ws, [SpawnedWorker(reg, no) EXCEPT
                   !.backends = <<"db", "out">>, !.finalized = 1,
                   !.frame = TimeFrame_try_from(reg),
                   !.published = <<"db", "out">>, !.pc = "done"])

\* two threads spawned on the same registry
spawn_twice(ws, reg, no) == Append(Append(ws, SpawnedWorker(reg, no)), SpawnedWorker(reg, no))

\* thread::spawn(move || ...) in flush
spawn(ws, reg, no) == Append(ws, SpawnedWorker(reg, no))

\* flush that hands the registry over and goes on with the same samples
flush_keeping_samples(reg, ws, no) == [registry |-> reg, workers |-> spawn(ws, reg, no)]

\* flush(registry, config): the registry main goes on with, and the threads
flush(reg, ws, no) ==
    [registry |-> Registry_new_with_gauges(reg), workers |-> spawn(ws, reg, no)]

Alive == pc \notin {"panicked", "exited"}

Elapsed == clock - now

\* time passes
Tick ==
    /\ Alive
    /\ clock < MaxClock
    /\ clock' = clock + 1
    /\ UNCHANGED <<overflow_checks, pc, registry, pending, now, timeout, recv_start,
                   workers, frame_no, accepted, touched, received, call, result>>

\* main.rs 188-192: the interval has passed, flush
LoopFlush ==
    /\ pc = "loop"
    /\ Elapsed > RefreshInterval
    /\ frame_no <= MaxFlushes
    /\ LET f == flush(registry, workers, frame_no)
       IN  /\ registry' = f.registry
           /\ workers' = f.workers
    /\ frame_no' = frame_no + 1
    /\ now' = clock
    /\ recv_start' = clock
    /\ pc' = "recv"
    /\ UNCHANGED <<overflow_checks, pending, clock, timeout, accepted, touched,
                   received, call, result>>

\* main.rs 193-197: set the read timeout to what is left of the interval
LoopSetTimeout ==
    /\ pc = "loop"
    /\ Elapsed <= RefreshInterval
    /\ RefreshInterval - Elapsed > 0
    /\ timeout' = SomeTimeout(RefreshInterval - Elapsed)
    /\ recv_start' = clock
    /\ pc' = "recv"
    /\ UNCHANGED <<overflow_checks, registry, pending, clock, now, workers, frame_no,
                   accepted, touched, received, call, result>>

\* main.rs 193-197: set_read_timeout refuses a zero duration and expect panics
LoopSetTimeoutPanics ==
    /\ pc = "loop"
    /\ Elapsed <= RefreshInterval
    /\ RefreshInterval - Elapsed = 0
    /\ pc' = "panicked"
    /\ UNCHANGED <<overflow_checks, registry, pending, clock, now, timeout, recv_start,
                   workers, frame_no, accepted, touched, received, call, result>>

\* main.rs 203-215: recv returns a datagram
RecvDatagram ==
    /\ pc = "recv"
    /\ received < MaxDatagrams
    /\ ~timeout.some \/ clock - recv_start <= timeout.duration
    /\ \E d \in Datagrams :
          /\ pending' = MetricsTable[d]
          /\ pc' = IF MetricsTable[d] = << >> THEN "loop" ELSE "apply"
    /\ received' = received + 1
    /\ UNCHANGED <<overflow_checks, registry, clock, now, timeout, recv_start, workers,
                   frame_no, accepted, touched, call, result>>

\* main.rs 226-233: the read timeout was reached
RecvWouldBlock ==
    /\ pc = "recv"
    /\ timeout.some
    /\ clock - recv_start >= timeout.duration
    /\ pc' = "loop"
    /\ UNCHANGED <<overflow_checks, registry, pending, clock, now, timeout, recv_start,
                   workers, frame_no, accepted, touched, received, call, result>>

\* main.rs 226-230: any other error of recv, exit(1)
RecvFails ==
    /\ pc = "recv"
    /\ pc' = "exited"
    /\ UNCHANGED <<overflow_checks, registry, pending, clock, now, timeout, recv_start,
                   workers, frame_no, accepted, touched, received, call, result>>

IsSample(metric) == metric.kind.kind \in {"Counter", "Timing"}

SeriesOf(metric) == IF metric.kind.kind = "Counter" THEN "counters" ELSE "timings"

\* the sample add stored for the metric: the last one of its series
StoredSample(reg, metric) ==
    LET list == reg[SeriesOf(metric)][metric.name]
    IN  list[Len(list)]

\* main.rs 215-218: the next metric of the datagram is added
ApplyAccepted ==
    /\ pc = "apply"
    /\ LET metric == Head(pending)
       IN  \E r \in {Registry_add(registry, metric, overflow_checks)} :
              /\ ~r.panicked
              /\ r.ok
              /\ registry' = r.registry
              /\ accepted' = IF IsSample(metric)
                             THEN Append(accepted,
                                         [frame_no |-> frame_no, series |-> SeriesOf(metric),
                                          name |-> metric.name,
                                          value |-> StoredSample(r.registry, metric)])
                             ELSE accepted
              /\ touched' = IF IsSample(metric) THEN touched
                            ELSE touched \cup {<<frame_no, metric.name>>}
    /\ pending' = Tail(pending)
    /\ pc' = IF Tail(pending) = << >> THEN "loop" ELSE "apply"
    /\ UNCHANGED <<overflow_checks, clock, now, timeout, recv_start, workers, frame_no,
                   received, call, result>>

\* the overflow arm without `now = Instant::now()`
ApplyOverflowKeepsClock ==
    /\ pc = "apply"
    /\ frame_no <= MaxFlushes
    /\ LET metric == Head(pending)
           r == Registry_add(registry, metric, overflow_checks)
           f == flush(r.registry, workers, frame_no)
       IN  /\ ~r.panicked
           /\ ~r.ok
           /\ registry' = f.registry
           /\ workers' = f.workers
    /\ frame_no' = frame_no + 1
    /\ pending' = Tail(pending)
    /\ pc' = IF Tail(pending) = << >> THEN "loop" ELSE "apply"
    /\ UNCHANGED <<overflow_checks, clock, now, timeout, recv_start, accepted, touched,
                   received, call, result>>

\* the overflow arm leaving the for loop: the rest of the datagram is not added
ApplyOverflowDropsRest ==
    /\ pc = "apply"
    /\ frame_no <= MaxFlushes
    /\ LET metric == Head(pending)
           r == Registry_add(registry, metric, overflow_checks)
           f == flush(r.registry, workers, frame_no)
       IN  /\ ~r.panicked
           /\ ~r.ok
           /\ registry' = f.registry
           /\ workers' = f.workers
    /\ frame_no' = frame_no + 1
    /\ now' = clock
    /\ pending' = << >>
    /\ pc' = "loop"
    /\ UNCHANGED <<overflow_checks, clock, timeout, recv_start, accepted, touched,
                   received, call, result>>

\* main.rs 218-223: add returned false, flush
ApplyOverflow ==
    /\ pc = "apply"
    /\ frame_no <= MaxFlushes
    /\ \E r \in {Registry_add(registry, Head(pending), overflow_checks)} :
          LET f == flush(r.registry, workers, frame_no)
          IN  /\ ~r.panicked
              /\ ~r.ok
              /\ registry' = f.registry
              /\ workers' = f.workers
    /\ frame_no' = frame_no + 1
    /\ now' = clock
    /\ pending' = Tail(pending)
    /\ pc' = IF Tail(pending) = << >> THEN "loop" ELSE "apply"
    /\ UNCHANGED <<overflow_checks, clock, timeout, recv_start, accepted, touched,
                   received, call, result>>

\* main.rs 218 with metrics.rs 147-155: the multiplication overflows in a build
\* with overflow checks, and main panics
ApplyPanics ==
    /\ pc = "apply"
    /\ \E r \in {Registry_add(registry, Head(pending), overflow_checks)} :
          /\ r.panicked
          /\ registry' = r.registry
    /\ pc' = "panicked"
    /\ UNCHANGED <<overflow_checks, pending, clock, now, timeout, recv_start, workers,
                   frame_no, accepted, touched, received, call, result>>

(***************************************************************************)
(* The publisher thread (main.rs 132-180).                                 *)
(***************************************************************************)
\* main.rs 137-168, one element of the iterator: the backend is built, or (for
\* postgresql, when connect fails) the Err is filtered out
InstantiateStep(wk, connected) ==
    LET b == Enabled[wk.next]
        last == wk.next = Len(Enabled)
    IN  [wk EXCEPT !.backends = IF connected THEN Append(@, b.name) ELSE @,
                   !.failed = IF connected THEN @ ELSE @ \cup {b.name},
                   !.next = IF last THEN 1 ELSE @ + 1,
                   !.pc = IF last THEN "aggregate" ELSE "instantiate"]

\* main.rs 172-174: the timestamp is taken and the registry finalized
AggregateStep(wk, utc_now) ==
    LET fin == Registry_finalize(wk.registry)
    IN  IF fin.panicked THEN [wk EXCEPT !.time = utc_now, !.pc = "panicked"]
        ELSE [wk EXCEPT !.time = utc_now,
                        !.finalized = @ + 1,
                        !.frame = fin.frame,
                        !.pc = IF fin.some /\ wk.backends # << >> THEN "publish"
                               ELSE "done"]

\* publish that walks the enabled list instead of the instantiated backends
PublishStepOverEnabled(wk) ==
    [wk EXCEPT !.published = Append(@, Enabled[wk.next].name),
               !.next = @ + 1,
               !.pc = IF wk.next = Len(wk.backends) THEN "done" ELSE "publish"]

\* main.rs 175-178, one iteration: publish on the next instantiated backend
PublishStep(wk) ==
    [wk EXCEPT !.published = Append(@, wk.backends[wk.next]),
               !.next = @ + 1,
               !.pc = IF wk.next = Len(wk.backends) THEN "done" ELSE "publish"]

WorkerInstantiates(w) ==
    /\ Alive
    /\ workers[w].pc = "instantiate"
    /\ workers' = [workers EXCEPT ![w] = InstantiateStep(@, TRUE)]
    /\ UNCHANGED <<overflow_checks, pc, registry, pending, clock, now, timeout,
                   recv_start, frame_no, accepted, touched, received, call, result>>

WorkerFailsToConnect(w) ==
    /\ Alive
    /\ workers[w].pc = "instantiate"
    /\ Enabled[workers[w].next].type = "postgresql"
    /\ workers' = [workers EXCEPT ![w] = InstantiateStep(@, FALSE)]
    /\ UNCHANGED <<overflow_checks, pc, registry, pending, clock, now, timeout,
                   recv_start, frame_no, accepted, touched, received, call, result>>

WorkerAggregates(w) ==
    /\ Alive
    /\ workers[w].pc = "aggregate"
    /\ workers' = [workers EXCEPT ![w] = AggregateStep(@, clock)]
    /\ UNCHANGED <<overflow_checks, pc, registry, pending, clock, now, timeout,
                   recv_start, frame_no, accepted, touched, received, call, result>>

WorkerPublishes(w) ==
    /\ Alive
    /\ workers[w].pc = "publish"
    /\ workers' = [workers EXCEPT ![w] = PublishStep(@)]
    /\ UNCHANGED <<overflow_checks, pc, registry, pending, clock, now, timeout,
                   recv_start, frame_no, accepted, touched, received, call, result>>

NoCall == [fn |-> "none"]

DaemonInit ==
    /\ overflow_checks \in BOOLEAN
    /\ pc = "loop"
    /\ registry = EmptyRegistry
    /\ pending = << >>
    /\ clock = 0
    /\ now = 0
    /\ timeout = NoTimeout
    /\ recv_start = 0
    /\ workers = << >>
    /\ frame_no = 1
    /\ accepted = << >>
    /\ touched = {}
    /\ received = 0

Init ==
    /\ DaemonInit
    /\ call = NoCall
    /\ result = NoCall

Next ==
    \/ Tick
    \/ LoopFlush
    \/ LoopSetTimeout
    \/ LoopSetTimeoutPanics
    \/ RecvDatagram
    \/ RecvWouldBlock
    \/ RecvFails
    \/ ApplyAccepted
    \/ ApplyOverflow
    \/ ApplyPanics
    \/ \E w \in 1..Len(workers) : WorkerInstantiates(w)
    \/ \E w \in 1..Len(workers) : WorkerFailsToConnect(w)
    \/ \E w \in 1..Len(workers) : WorkerAggregates(w)
    \/ \E w \in 1..Len(workers) : WorkerPublishes(w)

Spec == Init /\ [][Next]_vars

(***************************************************************************)
(* Properties of the daemon.                                               *)
(***************************************************************************)
RECURSIVE AcceptedValues(_, _, _, _)
\* the values add returned true for in frame `no`, series and name, from the
\* k-th accepted sample on, in the order accepted
AcceptedValues(k, no, series, name) ==
    IF k > Len(accepted) THEN << >>
    ELSE LET e == accepted[k]
             here == IF e.frame_no = no /\ e.series = series /\ e.name = name
                     THEN <<e.value>> ELSE << >>
         IN  here \o AcceptedValues(k + 1, no, series, name)

AcceptedNames == {accepted[k].name : k \in 1..Len(accepted)}

\* the samples a registry holds under a name
SamplesIn(reg, series, name) ==
    IF name \in DOMAIN reg[series] THEN reg[series][name] ELSE << >>

\* the registry holds the samples accepted in frame `no`, and no other
HoldsAccepted(reg, no) ==
    \A series \in {"counters", "timings"} :
        \A name \in AcceptedNames \cup DOMAIN reg[series] :
            SamplesIn(reg, series, name) = AcceptedValues(1, no, series, name)

RECURSIVE SumFromTo(_, _)
\* the sum of the list from the k-th element on, in integers
SumFromTo(list, k) ==
    IF k > Len(list) THEN Wide(0) ELSE WAdd(list[k], SumFromTo(list, k + 1))

SumFits(list) == WLe(SumFromTo(list, 1), U64_MAX)

IsPermutation(a, b) ==
    /\ Len(a) = Len(b)
    /\ \A v \in {a[i] : i \in 1..Len(a)} \cup {b[i] : i \in 1..Len(b)} :
          Cardinality({i \in 1..Len(a) : a[i] = v}) = Cardinality({i \in 1..Len(b) : b[i] = v})

\* the frame of a worker holds the samples of its registry, series by series,
\* but for the series whose sum does not fit in u64
FrameHoldsRegistry(wk) ==
    \A series \in {"counters", "timings"} :
        /\ DOMAIN wk.frame[series] \subseteq DOMAIN wk.registry[series]
        /\ \A name \in DOMAIN wk.registry[series] :
              IF SumFits(wk.registry[series][name])
              THEN /\ name \in DOMAIN wk.frame[series]
                   /\ IsPermutation(wk.frame[series][name].list, wk.registry[series][name])
              ELSE name \notin DOMAIN wk.frame[series]

\* C1: every sample add returned true for is held by exactly one registry, the
\* one that was live when it was added: the registry handed to worker i holds the
\* samples accepted in frame i and no other, the live registry those accepted
\* since the last flush, there is one worker per flush, and the frame a worker
\* finalized holds the samples of its registry but for the series whose sum
\* overflows u64.
C1_SampleInExactlyOneFrame ==
    /\ Len(workers) = frame_no - 1
    /\ HoldsAccepted(registry, frame_no)
    /\ \A i \in 1..Len(workers) :
          /\ workers[i].frame_no = i
          /\ HoldsAccepted(workers[i].registry, i)
          /\ workers[i].finalized = 1 => FrameHoldsRegistry(workers[i])

\* a worker finalized a frame holding the sample of the first frame, while the
\* live registry holds the sample accepted after the flush
C1_Witness ==
    /\ Len(accepted) = 2
    /\ accepted[1].frame_no = 1
    /\ accepted[2].frame_no = 2
    /\ Len(workers) = 1
    /\ workers[1].finalized = 1
    /\ accepted[1].name \in DOMAIN workers[1].frame[accepted[1].series]
    /\ accepted[2].name \in DOMAIN registry[accepted[2].series]

GaugeOf(reg, name) == IF name \in DOMAIN reg.gauges THEN <<reg.gauges[name]>> ELSE << >>

\* the registry of frame k: the live one, or the one handed to worker k
RegistryOfFrame(k) == IF k = frame_no THEN registry ELSE workers[k].registry

GaugesCarried ==
    /\ \A k \in 2..frame_no :
          \A name \in DOMAIN RegistryOfFrame(k).gauges \cup DOMAIN RegistryOfFrame(k - 1).gauges :
              <<k, name>> \notin touched =>
                  GaugeOf(RegistryOfFrame(k), name) = GaugeOf(RegistryOfFrame(k - 1), name)
    /\ \A i \in 1..Len(workers) :
          workers[i].finalized = 1 => workers[i].frame.gauges = workers[i].registry.gauges

FlushRotates ==
    frame_no' # frame_no =>
        /\ registry'.counters = EmptyMap
        /\ registry'.timings = EmptyMap
        /\ registry'.gauges = registry.gauges
        /\ workers'[Len(workers')].registry.gauges = registry.gauges

\* C2: every flush leaves a live registry with no counters and no timings and
\* with the gauges of the outgoing registry, so that a gauge no operation of
\* frame k touched has in frame k the value it had in frame k - 1, and a
\* finalized frame reports the gauges of its registry.
C2_GaugesCarryOver == [](GaugesCarried) /\ [][FlushRotates]_vars

\* the second frame reports a gauge set in the first frame and not touched since
C2_Witness ==
    /\ Len(workers) = 2
    /\ workers[2].finalized = 1
    /\ \E name \in DOMAIN workers[2].frame.gauges :
          /\ <<1, name>> \in touched
          /\ <<2, name>> \notin touched
          /\ workers[2].frame.gauges[name] = workers[1].registry.gauges[name]

\* what the ingest thread alone writes
ingest_vars == <<pc, registry, pending, now, timeout, recv_start, frame_no, received>>

\* a step of the ingest thread leaves every thread it spawned earlier as it was,
\* and a thread it spawns has instantiated, finalized and published nothing
IngestRunsNoBackend ==
    ingest_vars' # ingest_vars =>
        /\ Len(workers') >= Len(workers)
        /\ SubSeq(workers', 1, Len(workers)) = workers
        /\ \A i \in (Len(workers) + 1)..Len(workers') :
              /\ workers'[i].pc = "instantiate"
              /\ workers'[i].backends = << >>
              /\ workers'[i].failed = {}
              /\ workers'[i].finalized = 0
              /\ workers'[i].published = << >>

\* whatever the workers are doing, the ingest loop can take its next step
IngestNeverWaits ==
    /\ pc = "loop" /\ frame_no <= MaxFlushes =>
          ENABLED (LoopFlush \/ LoopSetTimeout \/ LoopSetTimeoutPanics)
    /\ pc = "apply" /\ frame_no <= MaxFlushes =>
          ENABLED (ApplyAccepted \/ ApplyOverflow \/ ApplyPanics)

\* C3: publishing cannot stall ingest: the ingest loop's next step is enabled
\* whatever the workers are doing, and no step of the ingest thread instantiates
\* a backend, finalizes or publishes: flush only spawns the worker.
C3_PublishingCannotStallIngest == [](IngestNeverWaits) /\ [][IngestRunsNoBackend]_vars

\* a sample was added to the new registry and a further flush was started while
\* the first worker is still instantiating its backends
C3_Witness ==
    /\ Len(workers) = 2
    /\ workers[1].pc = "instantiate"
    /\ workers[2].pc = "instantiate"
    /\ \E k \in 1..Len(accepted) : accepted[k].frame_no = 2
    /\ pc = "recv"

\* a handed-over registry belongs to one worker, which finalizes it at most once,
\* and once before it publishes or ends
OneWorkerPerRegistry ==
    \A i \in 1..Len(workers) :
        /\ workers[i].frame_no = i
        /\ workers[i].finalized \in {0, 1}
        /\ workers[i].pc \in {"instantiate", "aggregate"} => workers[i].finalized = 0
        /\ workers[i].pc \in {"publish", "done"} => workers[i].finalized = 1

\* no step changes a registry that was handed over, and a step of a worker
\* changes neither the state of the ingest loop nor another worker
NoSharedWrites ==
    /\ Len(workers') >= Len(workers)
    /\ \A i \in 1..Len(workers) :
          /\ workers'[i].registry = workers[i].registry
          /\ workers'[i] # workers[i] =>
                /\ ingest_vars' = ingest_vars
                /\ Len(workers') = Len(workers)
                /\ \A j \in 1..Len(workers) : j # i => workers'[j] = workers[j]

\* C4: a registry has one writer: after the handover no step changes the registry
\* a worker owns, a worker's step changes nothing of the ingest loop or of another
\* worker, and each handed-over registry has one worker, which finalizes it once.
C4_SingleWriter == [](OneWorkerPerRegistry) /\ [][NoSharedWrites]_vars

\* two registries were handed over and each was finalized by its worker, while
\* the ingest loop went on adding to the live one
C4_Witness ==
    /\ Len(workers) = 2
    /\ workers[1].finalized = 1
    /\ workers[2].finalized = 1
    /\ workers[1].registry # workers[2].registry
    /\ registry # workers[2].registry

EnabledNames == [i \in 1..Len(Enabled) |-> Enabled[i].name]

\* the enabled backends a worker did not fail to instantiate, in list order
Instantiated(wk) == SelectSeq(EnabledNames, LAMBDA n : n \notin wk.failed)

IsPrefix(p, q) == Len(p) <= Len(q) /\ SubSeq(q, 1, Len(p)) = p

\* C10: a worker publishes its frame once on each enabled backend it
\* instantiated, in the order of the enabled list, and never on one whose
\* instantiation failed: what it has published is a prefix of the instantiated
\* backends in list order, all of them when it is done, and it publishes only
\* after it finalized the registry.
C10_PublishOncePerBackendInOrder ==
    \A i \in 1..Len(workers) :
        LET wk == workers[i]
        IN  /\ wk.pc \in {"aggregate", "publish", "done"} => wk.backends = Instantiated(wk)
            /\ IsPrefix(wk.published, Instantiated(wk))
            /\ wk.published # << >> => wk.finalized = 1
            /\ wk.pc = "done" => wk.published = Instantiated(wk)

\* a worker that failed to instantiate the first backend is done and has
\* published on the second
C10_Witness ==
    \E i \in 1..Len(workers) :
        /\ workers[i].pc = "done"
        /\ workers[i].failed = {"db"}
        /\ workers[i].published = <<"out">>

\* add returns false for the record the ingest loop is about to add
AddReturnsFalse ==
    /\ pc = "apply"
    /\ LET r == Registry_add(registry, Head(pending), overflow_checks)
       IN  ~r.panicked /\ ~r.ok

\* the step of the ingest loop rotates the registry and resets the interval clock
RotatesAndResets ==
    /\ frame_no' = frame_no + 1
    /\ Len(workers') = Len(workers) + 1
    /\ workers'[Len(workers')].registry = registry
    /\ workers'[Len(workers')].pc = "instantiate"
    /\ registry' = Registry_new_with_gauges(registry)
    /\ now' = clock
    /\ pending' = Tail(pending)

\* C11: when add returns false for a record, the step of the ingest loop that
\* handles the record hands the live registry to a new worker, goes on with a
\* rotated one and resets the interval clock, and only then comes to the next
\* record of the datagram.
C11_OverflowRotatesAtOnce ==
    [][AddReturnsFalse /\ ingest_vars' # ingest_vars => RotatesAndResets]_vars

\* an overflow flush at time 0, which no interval flush can be, with the rest of
\* the datagram still to add
C11_Witness ==
    /\ clock = 0
    /\ frame_no = 2
    /\ Len(workers) = 1
    /\ pc = "apply"
    /\ pending # << >>
    /\ now = clock

IsGaugeOp(metric, ops) == metric.kind.kind = "Gauge" /\ metric.kind.op \in ops

\* the ingest loop adds a Remove: add returns true (no flush), the gauge is gone
\* and the other gauges are as they were
RemoveDeletes ==
    pc = "apply" /\ IsGaugeOp(Head(pending), {"Remove"}) /\ ingest_vars' # ingest_vars =>
        /\ frame_no' = frame_no
        /\ pending' = Tail(pending)
        /\ DOMAIN registry'.gauges = DOMAIN registry.gauges \ {Head(pending).name}
        /\ \A other \in DOMAIN registry'.gauges : registry'.gauges[other] = registry.gauges[other]

\* a gauge the live registry does not hold appears in it only by a Set or a
\* Modify of its name
AbsentUntilSetOrModify ==
    \A name \in DOMAIN registry'.gauges \ DOMAIN registry.gauges :
        /\ pc = "apply"
        /\ Head(pending).name = name
        /\ IsGaugeOp(Head(pending), {"Set", "Modify"})

\* a gauge absent from the registry of a frame is absent from the registry of the
\* next one unless a gauge operation of the next frame named it, and the gauges
\* of a finalized frame are the names of its registry
AbsentCarried ==
    /\ \A k \in 2..frame_no :
          \A name \in DOMAIN RegistryOfFrame(k).gauges :
              name \in DOMAIN RegistryOfFrame(k - 1).gauges \/ <<k, name>> \in touched
    /\ \A i \in 1..Len(workers) :
          workers[i].finalized = 1 =>
              DOMAIN workers[i].frame.gauges = DOMAIN workers[i].registry.gauges

\* C15: add of Remove returns true and deletes the gauge, leaving the others;
\* the gauge then stays out of the live registry, of the registries that follow
\* it and of their frames until a Set or a Modify names it.
C15_RemovedGaugeStaysAbsent ==
    [](AbsentCarried) /\ [][RemoveDeletes /\ AbsentUntilSetOrModify]_vars

\* two gauges were set and one removed: the frame reports the other one only
C15_Witness ==
    /\ Len(workers) = 1
    /\ workers[1].finalized = 1
    /\ <<1, <<"g">>>> \in touched
    /\ <<1, <<"h">>>> \in touched
    /\ DOMAIN workers[1].frame.gauges = {<<"h">>}

\* C19 as stated: an iteration of the ingest loop that begins with the time since
\* the last flush at or beyond refresh_interval flushes the registry and resets
\* the interval clock before it receives, and does not fail.
C19_FlushAtOrBeyondInterval ==
    [][pc = "loop" /\ Elapsed >= RefreshInterval /\ ingest_vars' # ingest_vars =>
          /\ pc' = "recv"
          /\ frame_no' = frame_no + 1
          /\ Len(workers') = Len(workers) + 1
          /\ now' = clock]_vars

\* the worker has taken the timestamp it publishes with
Stamped(wk) == wk.pc \in {"publish", "done"}

\* C20 as stated: the timestamp a worker publishes with is the time of the
\* flush that handed it its registry (main's `now` for the latest worker), and a
\* frame rotated earlier carries no later timestamp than one rotated after it.
C20_TimestampTakenAtFlush ==
    /\ \A i \in 1..Len(workers) : \A j \in i..Len(workers) :
          Stamped(workers[i]) /\ Stamped(workers[j]) => workers[i].time <= workers[j].time
    /\ Len(workers) > 0 /\ Stamped(workers[Len(workers)]) =>
          workers[Len(workers)].time = now

\* C21 as stated: every iteration of the ingest loop that reaches the receive
\* call, one that flushed included, has set the read timeout in that iteration
\* to refresh_interval minus the time elapsed since the last flush.
C21_TimeoutRecomputedEveryIteration ==
    [][pc = "loop" /\ pc' = "recv" =>
          timeout' = SomeTimeout(RefreshInterval - (clock' - now'))]_vars

\* every name of the counters and of the timings has at least one sample
NonEmptyLists(reg) ==
    /\ \A n \in DOMAIN reg.counters : Len(reg.counters[n]) > 0
    /\ \A n \in DOMAIN reg.timings : Len(reg.timings[n]) > 0

\* C24: the live registry, after every add that returned and every flush, and
\* every registry handed to a worker map each name of the counters and of the
\* timings to a non-empty list, and no worker panics on the assertion of
\* Statistics::new.
C24_SampleListsNonEmpty ==
    /\ pc # "panicked" => NonEmptyLists(registry)
    /\ \A i \in 1..Len(workers) :
          /\ NonEmptyLists(workers[i].registry)
          /\ workers[i].pc # "panicked"

\* a worker has finalized a registry of one counter and one timing sample, and
\* the registry that follows it has no series at all
C24_Witness ==
    /\ Len(workers) = 1
    /\ workers[1].finalized = 1
    /\ workers[1].registry.counters = [n \in {<<"a">>} |-> <<Wide(1)>>]
    /\ workers[1].registry.timings = [n \in {<<"a">>} |-> <<Wide(3000)>>]
    /\ DOMAIN registry.counters = {}
    /\ DOMAIN registry.timings = {}

(***************************************************************************)
(* The daemon on a quiet socket: no datagram ever arrives and recv fails   *)
(* with nothing but WouldBlock.  Time passes, main runs whenever it has a  *)
(* step to take (recv returns once its timeout is reached) and so does     *)
(* every publisher thread.                                                 *)
(***************************************************************************)
\* a step of main (main.rs 187-236) with no datagram to receive
MainStep == LoopFlush \/ LoopSetTimeout \/ LoopSetTimeoutPanics \/ RecvWouldBlock

\* a step of the w-th publisher thread (main.rs 132-180)
WorkerStep(w) ==
    /\ w \in 1..Len(workers)
    /\ \/ WorkerInstantiates(w)
       \/ WorkerFailsToConnect(w)
       \/ WorkerAggregates(w)
       \/ WorkerPublishes(w)

NextQuiet ==
    \/ Tick
    \/ LoopFlush
    \/ LoopSetTimeout
    \/ LoopSetTimeoutPanics
    \/ RecvWouldBlock
    \/ \E w \in 1..Len(workers) : WorkerInstantiates(w)
    \/ \E w \in 1..Len(workers) : WorkerFailsToConnect(w)
    \/ \E w \in 1..Len(workers) : WorkerAggregates(w)
    \/ \E w \in 1..Len(workers) : WorkerPublishes(w)

QuietFairness ==
    /\ WF_vars(Tick)
    /\ WF_vars(MainStep)
    /\ \A w \in 1..MaxFlushes : WF_vars(WorkerStep(w))

SpecQuiet == Init /\ [][NextQuiet]_vars /\ QuietFairness

\* C25 as stated, on a quiet socket: every receive is entered with a read
\* timeout in force, a receive that returns goes back to the head of the loop,
\* no receive lasts forever (of those whose timeout ends within the time
\* modelled), and every registry is flushed in the end (of those whose interval
\* ends within the time modelled).
C25_QuietLoopKeepsFlushing ==
    /\ [](pc = "recv" => timeout.some)
    /\ [][pc = "recv" /\ pc' # "recv" => pc' = "loop"]_vars
    /\ (pc = "recv" /\ (timeout.some => recv_start + timeout.duration <= MaxClock))
           ~> (pc # "recv")
    /\ \A k \in 1..MaxFlushes :
          (frame_no = k /\ now + RefreshInterval < MaxClock) ~> (frame_no > k)

(***************************************************************************)
(* The parser on its own: parse_protocol applied to payloads made of       *)
(* records whose parse is known from the grammar, joined by newlines, and  *)
(* of trailing bytes.                                                      *)
(***************************************************************************)
\* records of a payload
MaxRecords == 2

\* a record text and the metric it stands for
Valid(text, name, kind) ==
    [text |-> text, valid |-> TRUE, lead |-> "record", metric |-> Metric(name, kind)]

\* a text that is no record and does not begin with one: its name ends with a
\* bar, and no kind follows the bar
Invalid(text) ==
    [text |-> text, valid |-> FALSE, lead |-> "none", metric |-> Metric(<< >>, GaugeRemove)]

\* a text that is no record but begins with one: the record of that metric,
\* followed by bytes that are not a newline
RecordThenBytes(text, name, kind) ==
    [text |-> text, valid |-> FALSE, lead |-> "record then bytes", metric |-> Metric(name, kind)]

\* a text that is no record because it has no bar: all of it can be part of a
\* name, and `metric` carries it as that name
NameOnly(text) ==
    [text |-> text, valid |-> FALSE, lead |-> "name only", metric |-> Metric(text, GaugeRemove)]

\* records whose decimal field is beyond its integer type: one past the largest
\* u64 or i64, one below the least i64, and a run of digits three times as long
OutOfRangeRecords ==
    { Invalid(<<"a", BAR, "c", BAR>> \o ToDecimal(WAdd(U64_MAX, Wide(1)))),
      Invalid(<<"a", BAR, "c", BAR>> \o ToDecimal(U64_MAX) \o ToDecimal(U64_MAX)
              \o ToDecimal(U64_MAX)),
      Invalid(<<"a", BAR, "t", BAR>> \o ToDecimal(WAdd(U64_MAX, Wide(1)))),
      Invalid(<<"a", BAR, "t", BAR>> \o ToDecimal(WAdd(U64_MAX, Wide(1))) \o <<BAR, "n", "s">>),
      Invalid(<<"g", BAR, "g", BAR>> \o ToDecimal(WAdd(I64_MAX, Wide(1)))),
      Invalid(<<"g", BAR, "g", BAR, "-">> \o ToDecimal(WAdd(I64_MAX, Wide(2)))),
      Invalid(<<"g", BAR, "g", BAR, "+", "=">> \o ToDecimal(WAdd(I64_MAX, Wide(1)))),
      Invalid(<<"g", BAR, "g", BAR, "-", "=">> \o ToDecimal(WAdd(I64_MAX, Wide(1)))) }

RecordTable ==
    { Valid(<<"a", BAR, "c", BAR, "1", "2">>, <<"a">>, Counter(Wide(12))),
      Valid(<<"a", BAR, "t", BAR, "7">>, <<"a">>, Timing(Wide(7), MilliSeconds)),
      Valid(<<"b", BAR, "t", BAR, "3", BAR, "u", "s">>, <<"b">>, Timing(Wide(3), MicroSeconds)),
      Valid(<<"b", BAR, "t", BAR>> \o ToDecimal(U64_MAX) \o <<BAR, "s">>, <<"b">>,
            Timing(U64_MAX, Seconds)),
      Valid(<<"g", BAR, "g", BAR, "-", "5">>, <<"g">>, GaugeSet(Wide(-5))),
      Valid(<<"g", BAR, "g", BAR, "+", "=", "5">>, <<"g">>, GaugeModify(Wide(5))),
      Valid(<<"g", BAR, "g", BAR, "-", "=", "3">>, <<"g">>, GaugeModify(Wide(-3))),
      Valid(<<"x", BACKSLASH, BAR, "y", BAR, "g", BAR, "x">>, <<"x", BAR, "y">>, GaugeRemove),
      Invalid(<<"a", BAR, "q", BAR, "1">>),
      Invalid(<<"a", BAR, "c", BAR, "x">>),
      Invalid(<<"g", BAR, "g", BAR, "+", "5">>),
      RecordThenBytes(<<"a", BAR, "c", BAR, "1", "2", "x">>, <<"a">>, Counter(Wide(12))),
      RecordThenBytes(<<"a", BAR, "t", BAR, "7", BAR, "m">>, <<"a">>,
                      Timing(Wide(7), MilliSeconds)),
      NameOnly(<<"a", "b", "c">>) }
    \cup OutOfRangeRecords

\* bytes after the last record that are not a newline and a record
Trailings ==
    { <<NUL, NUL, NUL>>,
      <<"z">>,
      <<BAR, "x", "x">>,
      <<LF>>,
      <<LF, NUL, NUL>>,
      <<LF, "a", BAR, "q", BAR, "1">> }

RECURSIVE Join(_, _)
\* the texts of the records from the k-th on, joined by newlines
Join(records, k) ==
    IF k > Len(records) THEN << >>
    ELSE IF k = Len(records) THEN records[k].text
    ELSE records[k].text \o <<LF>> \o Join(records, k + 1)

Payload(c) == Join(c.records, 1) \o c.trailing

ParserCalls ==
    { [fn |-> "parse_protocol", records |-> r, trailing |-> t] :
        r \in UNION {[1..n -> RecordTable] : n \in 1..MaxRecords},
        t \in Trailings \cup {<< >>} }

ParserInit ==
    /\ DaemonInit
    /\ call \in ParserCalls
    /\ result = NoCall

ParseProtocolCall ==
    /\ call.fn = "parse_protocol"
    /\ result = NoCall
    /\ result' = [fn |-> "parse_protocol", metrics |-> parse_protocol(Payload(call))]
    /\ UNCHANGED <<daemon_vars, call>>

SpecParser == ParserInit /\ [][ParseProtocolCall]_vars

RECURSIVE MetricsRead(_, _, _)
\* what the grammar reads of the texts from the k-th on, joined by newlines, after
\* `name`, the part of a name read so far.  A record gives its metric and the
\* reading goes on behind the newline; a record followed by other bytes gives its
\* metric and ends the reading; a text without a bar is, with the newline after
\* it, the beginning of the name of the next text; any other text ends the reading.
MetricsRead(records, k, name) ==
    IF k > Len(records) THEN << >>
    ELSE LET r == records[k]
             metric == Metric(name \o r.metric.name, r.metric.kind)
         IN  CASE r.lead = "record" -> <<metric>> \o MetricsRead(records, k + 1, << >>)
               [] r.lead = "record then bytes" -> <<metric>>
               [] r.lead = "name only" -> MetricsRead(records, k + 1, name \o r.text \o <<LF>>)
               [] r.lead = "none" -> << >>

\* a payload of texts joined by newlines
RecordsAlone ==
    /\ result.fn = "parse_protocol"
    /\ call.trailing = << >>

\* C5 as stated: when any record of the payload fails to parse, parse_protocol
\* returns the empty sequence.
C5_AllOrNothing ==
    RecordsAlone /\ (\E k \in 1..Len(call.records) : ~call.records[k].valid) =>
        result.metrics = << >>

\* C5 as amended: parse_protocol reads records from the start of the payload, each
\* after the first behind a newline, up to the first place where no record can be
\* read, and returns the metrics of the records read, in order, whatever follows:
\* a text that fails outright ends the list with the metrics before it, a text
\* that begins with a record still gives that record's metric, and a text without
\* a bar becomes the beginning of the next record's name.  The result is empty
\* only when no record can be read at the start of the payload.
C5_FirstFailureCutsPayload ==
    RecordsAlone =>
        /\ result.metrics = MetricsRead(call.records, 1, << >>)
        /\ result.metrics = << >> <=>
               \/ call.records[1].lead = "none"
               \/ \A k \in 1..Len(call.records) : call.records[k].lead = "name only"
               \/ \E k \in 2..Len(call.records) :
                     /\ call.records[k].lead = "none"
                     /\ \A i \in 1..(k - 1) : call.records[i].lead = "name only"

\* a valid record followed by a text that fails to parse as a record but begins
\* with one: both metrics were returned
C5_Witness ==
    /\ RecordsAlone
    /\ Len(call.records) = 2
    /\ call.records[1].valid
    /\ call.records[2].lead = "record then bytes"
    /\ result.metrics = <<call.records[1].metric, call.records[2].metric>>

\* valid records followed by trailing bytes
RecordsThenTrailing ==
    /\ result.fn = "parse_protocol"
    /\ call.trailing # << >>
    /\ \A k \in 1..Len(call.records) : call.records[k].valid

\* C6 as stated: valid records followed by trailing bytes that are not a newline
\* and another valid record make parse_protocol yield no metric.
C6_TrailingBytesFailPayload == RecordsThenTrailing => result.metrics = << >>

\* C6 as amended: trailing bytes that are not a newline and another valid record
\* are left unread: parse_protocol yields the metrics of the valid records
\* before them.
C6_TrailingBytesIgnored ==
    RecordsThenTrailing => result.metrics = [k \in 1..Len(call.records) |-> call.records[k].metric]

\* two records and the zero bytes of the receive buffer after them: both yielded
C6_Witness ==
    /\ RecordsThenTrailing
    /\ call.trailing = <<NUL, NUL, NUL>>
    /\ Len(call.records) = 2
    /\ Len(result.metrics) = 2

\* the payload is one record whose decimal field is out of range, alone or with
\* the zero bytes of the receive buffer after it
OneOutOfRangeRecord ==
    /\ result.fn = "parse_protocol"
    /\ Len(call.records) = 1
    /\ call.records[1] \in OutOfRangeRecords
    /\ call.trailing \in {<< >>, <<NUL, NUL, NUL>>}

\* C16: for a payload of one counter, timing or gauge record whose decimal field
\* is beyond u64 (counter, timing) or i64 (gauge), parse_protocol returns, and
\* returns the empty sequence.
C16_OutOfRangeNumberYieldsNothing == OneOutOfRangeRecord => result.metrics = << >>

\* a timing one past u64::MAX with a unit was parsed to nothing
C16_Witness ==
    /\ OneOutOfRangeRecord
    /\ call.records[1].text = <<"a", BAR, "t", BAR>> \o ToDecimal(WAdd(U64_MAX, Wide(1))) \o <<BAR, "n", "s">>
    /\ call.trailing = << >>
    /\ result.metrics = << >>

(***************************************************************************)
(* Statistics on its own: Statistics::new of a list of samples, then       *)
(* percentile(p) for p = num / PercentileDen.                              *)
(***************************************************************************)
\* samples of a list
MaxSamples == 3
\* p ranges over the multiples of 1 / PercentileDen, a power of two
PercentileDenLog == 2

PercentileDen == 2 ^ PercentileDenLog

SampleValues == {Wide(1), Wide(2), Wide(5), U64_MAX}

StatisticsCalls ==
    { [fn |-> "percentile", list |-> l, num |-> n] :
        l \in UNION {[1..k -> SampleValues] : k \in 1..MaxSamples},
        n \in (-1)..(PercentileDen + 1) }

StatisticsInit ==
    /\ DaemonInit
    /\ call \in StatisticsCalls
    /\ result = NoCall

PercentileCall ==
    /\ call.fn = "percentile"
    /\ result = NoCall
    /\ LET st == Statistics_new(call.list)
       IN  result' = [fn |-> "percentile", built |-> st.ok,
                      list |-> st.list,
                      ret |-> IF st.ok
                              THEN Statistics_percentile(st, call.num, PercentileDen)
                              ELSE [panicked |-> FALSE, val |-> Wide(0)]]
    /\ UNCHANGED <<daemon_vars, call>>

SpecStatistics == StatisticsInit /\ [][PercentileCall]_vars

\* C7 as stated: on a Statistics built from a non-empty list and p in [0, 1],
\* percentile(p) does not fail and returns an element of the list, the minimum
\* for p = 0 and the maximum for p = 1.
C7_PercentileBoundaries ==
    result.fn = "percentile" /\ result.built /\ call.num \in 0..PercentileDen =>
        LET samples == {call.list[i] : i \in 1..Len(call.list)}
        IN  /\ ~result.ret.panicked
            /\ result.ret.val \in samples
            /\ call.num = 0 => \A v \in samples : WLe(result.ret.val, v)
            /\ call.num = PercentileDen => \A v \in samples : WLe(v, result.ret.val)

(***************************************************************************)
(* Registry::add on its own: one metric added to a registry.               *)
(***************************************************************************)
GaugeNames == {<<"g">>, <<"h">>}

GaugeValues == {I64_MIN, Wide(-1), Wide(0), Wide(1), I64_MAX}

\* the gauge maps over GaugeNames
GaugeMaps ==
    UNION {[names -> GaugeValues] : names \in SUBSET GaugeNames}

RegistryInputs ==
    { [counters |-> EmptyMap, gauges |-> g, timings |-> t] :
        g \in GaugeMaps, t \in {EmptyMap, [n \in {<<"g">>} |-> <<Wide(1)>>]} }

RECURSIVE DivByFactor(_, _)
\* a divided by the factor f of a unit, a power of 1000, rounded down
DivByFactor(a, f) ==
    IF f = 1 THEN a
    ELSE DivByFactor([neg |-> FALSE, mag |-> MagDivLimb(a.mag, 1000).q], f \div 1000)

\* small values, the largest number of seconds whose nanoseconds fit in u64, the
\* one after it, and u64::MAX
TimingValues ==
    { Wide(0), Wide(1), Wide(2), DivByFactor(U64_MAX, SecondsFactor),
      WAdd(DivByFactor(U64_MAX, SecondsFactor), Wide(1)), U64_MAX }

MetricInputs ==
    { Metric(<<"g">>, k) :
        k \in {GaugeModify(d) : d \in GaugeValues}
              \cup {Timing(v, r) : v \in TimingValues,
                                   r \in {Seconds, MilliSeconds, MicroSeconds, NanoSeconds}}
              \cup {Counter(Wide(1)), GaugeSet(Wide(1)), GaugeRemove} }

RegistryCalls ==
    { [fn |-> "add", registry |-> r, metric |-> m] :
        r \in RegistryInputs, m \in MetricInputs }

RegistryInit ==
    /\ DaemonInit
    /\ call \in RegistryCalls
    /\ result = NoCall

AddCall ==
    /\ call.fn = "add"
    /\ result = NoCall
    /\ result' = [fn |-> "add", ret |-> Registry_add(call.registry, call.metric, overflow_checks)]
    /\ UNCHANGED <<daemon_vars, call>>

SpecRegistry == RegistryInit /\ [][AddCall]_vars

\* the call added Gauge(Modify(d))
AddedModify ==
    /\ result.fn = "add"
    /\ call.metric.kind.kind = "Gauge"
    /\ call.metric.kind.op = "Modify"

\* C8: add of Gauge(Modify(d)) adds d to the gauge (0 when absent): when the sum
\* is an i64, the gauge holds the sum, nothing else changed and add returns
\* true; when it is not, add returns false and the registry is as it was.
C8_GaugeModifyChecked ==
    AddedModify =>
        LET reg == call.registry
            name == call.metric.name
            current == IF name \in DOMAIN reg.gauges THEN reg.gauges[name] ELSE Wide(0)
            sum == WAdd(current, call.metric.kind.value)
            after == result.ret.registry
        IN  /\ ~result.ret.panicked
            /\ IF WLe(I64_MIN, sum) /\ WLe(sum, I64_MAX)
               THEN /\ result.ret.ok
                    /\ DOMAIN after.gauges = DOMAIN reg.gauges \cup {name}
                    /\ after.gauges[name] = sum
                    /\ \A other \in DOMAIN reg.gauges \ {name} :
                          after.gauges[other] = reg.gauges[other]
                    /\ after.counters = reg.counters
                    /\ after.timings = reg.timings
               ELSE /\ ~result.ret.ok
                    /\ after = reg

\* an increment of a gauge at i64::MAX, next to another gauge: rejected
C8_Witness ==
    /\ AddedModify
    /\ call.registry.gauges = [n \in GaugeNames |-> I64_MAX]
    /\ call.metric.kind.value = Wide(1)
    /\ ~result.ret.ok
    /\ result.ret.registry.gauges = call.registry.gauges

\* C9 as stated: add of Timing(v, r) whose product with the factor of r does not
\* fit in u64 returns false and leaves the registry as it was, without a panic.
C9_TimingOverflowRejected ==
    /\ result.fn = "add"
    /\ call.metric.kind.kind = "Timing"
    /\ WLt(U64_MAX, WMul(call.metric.kind.value,
                          Wide(ResolutionFactor(call.metric.kind.resolution))))
    => /\ ~result.ret.panicked
       /\ ~result.ret.ok
       /\ result.ret.registry = call.registry

(***************************************************************************)
(* Registry::finalize on its own: a registry whose series hold the samples *)
(* add pushed, finalized into a time frame.                                *)
(***************************************************************************)
SampleLists == UNION {[1..k -> SampleValues] : k \in 1..MaxSamples}

\* the map with the key, or without it when the value is the empty list
Series(name, list) == IF list = << >> THEN EmptyMap ELSE [n \in {name} |-> list]

\* the union of two maps with different keys
MapUnion(m1, m2) == [n \in DOMAIN m1 \cup DOMAIN m2 |-> IF n \in DOMAIN m1 THEN m1[n] ELSE m2[n]]

FinalizeInputs ==
    { [counters |-> MapUnion(Series(<<"a">>, la), Series(<<"b">>, lb)),
       gauges |-> g,
       timings |-> Series(<<"a">>, lt)] :
        la \in SampleLists \cup {<< >>},
        lb \in {<< >>, <<U64_MAX, Wide(1)>>},
        lt \in {<< >>, <<Wide(2), Wide(1)>>, <<U64_MAX, U64_MAX>>},
        g \in {EmptyMap, [n \in {<<"g">>} |-> Wide(-1)]} }

FinalizeInit ==
    /\ DaemonInit
    /\ call \in {[fn |-> "finalize", registry |-> r] : r \in FinalizeInputs}
    /\ result = NoCall

FinalizeCall ==
    /\ call.fn = "finalize"
    /\ result = NoCall
    /\ result' = [fn |-> "finalize", ret |-> Registry_finalize(call.registry)]
    /\ UNCHANGED <<daemon_vars, call>>

SpecFinalize == FinalizeInit /\ [][FinalizeCall]_vars

\* the series of the frame, against the lists of the registry
SeriesReported(frame, reg, series) ==
    /\ DOMAIN frame[series] \subseteq DOMAIN reg[series]
    /\ \A name \in DOMAIN reg[series] :
          IF SumFits(reg[series][name])
          THEN /\ name \in DOMAIN frame[series]
               /\ Statistics_count(frame[series][name]) = Len(reg[series][name])
               /\ Statistics_sum(frame[series][name]) =
                     SumFromTo(reg[series][name], 1)
          ELSE name \notin DOMAIN frame[series]

\* C12: finalize yields a frame, with a Statistics for every counter and timing
\* series whose sum fits in u64, its count the number of samples and its sum
\* their total, without the series whose sum overflows, and with the gauges of
\* the registry.
C12_FinalizeDropsOverflowingSeries ==
    result.fn = "finalize" =>
        /\ ~result.ret.panicked
        /\ result.ret.some
        /\ result.ret.frame.gauges = call.registry.gauges
        /\ SeriesReported(result.ret.frame, call.registry, "counters")
        /\ SeriesReported(result.ret.frame, call.registry, "timings")

\* a counter series is reported next to a counter and a timing series that
\* overflow and are left out
C12_Witness ==
    /\ result.fn = "finalize"
    /\ call.registry.counters = MapUnion(Series(<<"a">>, <<Wide(5), Wide(1), Wide(2)>>),
                                        Series(<<"b">>, <<U64_MAX, Wide(1)>>))
    /\ call.registry.timings = Series(<<"a">>, <<U64_MAX, U64_MAX>>)
    /\ DOMAIN result.ret.frame.counters = {<<"a">>}
    /\ result.ret.frame.counters[<<"a">>].sum = Wide(8)
    /\ result.ret.frame.timings = EmptyMap
    /\ DOMAIN result.ret.frame.gauges = {<<"g">>}

(***************************************************************************)
(* Sequences of Registry::add: the metrics of a call are added one after   *)
(* the other to one registry, whatever add returns (no flush in between),  *)
(* and the single metric that should amount to the same is added to the    *)
(* registry the call started from.                                         *)
(***************************************************************************)
\* metrics of a call
MaxAdds == 3

AddsMetrics ==
    {Metric(<<"g">>, GaugeModify(d)) : d \in {Wide(5), Wide(-3), Wide(-1), I64_MAX}}
    \cup {Metric(<<"g">>, GaugeRemove)}
    \cup {Metric(<<"a">>, Counter(Wide(1))), Metric(<<"a">>, Counter(Wide(2))),
          Metric(<<"b">>, Counter(Wide(1)))}
    \cup {Metric(<<"t">>, Timing(Wide(2), MicroSeconds)),
          Metric(<<"t">>, Timing(Wide(1), MilliSeconds)),
          Metric(<<"t">>, Timing(Wide(1), Seconds)),
          Metric(<<"t">>, Timing(DivByFactor(U64_MAX, SecondsFactor), Seconds)),
          Metric(<<"t">>, Timing(WAdd(DivByFactor(U64_MAX, SecondsFactor), Wide(1)), Seconds))}

AddsRegistries ==
    { EmptyRegistry,
      [counters |-> [n \in {<<"a">>} |-> <<Wide(7)>>],
       gauges |-> [n \in {<<"g">>} |-> Wide(1)],
       timings |-> [n \in {<<"t">>} |-> <<Wide(9)>>]] }

AddsCalls ==
    { [fn |-> "adds", registry |-> r, metrics |-> ms] :
        r \in AddsRegistries,
        ms \in UNION {[1..n -> AddsMetrics] : n \in 1..MaxAdds} }

NotAdded == [set |-> FALSE, ret |-> AddResult(EmptyRegistry, FALSE, FALSE)]

\* nothing added yet: regs holds the registry after each add, oks what add returned
AddsStart(reg) ==
    [fn |-> "adds", regs |-> <<reg>>, oks |-> << >>, panicked |-> FALSE,
     equivalent |-> NotAdded]

\* whether the product of a timing value and its factor is a u64
ProductFits(kind) == ~U64MulOverflows(kind.value, Wide(ResolutionFactor(kind.resolution)))

\* whether the sum of two deltas is an i64
DeltaSumFits(k1, k2) == I64CheckedAdd(k1.value, k2.value).ok

IsModify(metric) == metric.kind.kind = "Gauge" /\ metric.kind.op = "Modify"

\* the calls one metric should amount to: two Modify of one gauge whose deltas
\* add up to an i64, or one Timing in a unit other than ns whose product fits
HasEquivalent(ms) ==
    \/ /\ Len(ms) = 2
       /\ IsModify(ms[1])
       /\ IsModify(ms[2])
       /\ ms[1].name = ms[2].name
       /\ DeltaSumFits(ms[1].kind, ms[2].kind)
    \/ /\ Len(ms) = 1
       /\ ms[1].kind.kind = "Timing"
       /\ ms[1].kind.resolution # NanoSeconds
       /\ ProductFits(ms[1].kind)

EquivalentOf(ms) ==
    IF Len(ms) = 2
    THEN Metric(ms[1].name, GaugeModify(WAdd(ms[1].kind.value, ms[2].kind.value)))
    ELSE Metric(ms[1].name,
                Timing(WMul(ms[1].kind.value, Wide(ResolutionFactor(ms[1].kind.resolution))),
                       NanoSeconds))

AddsInit ==
    /\ DaemonInit
    /\ call \in AddsCalls
    /\ result = AddsStart(call.registry)

\* the next metric of the call is added
AddNext ==
    /\ call.fn = "adds"
    /\ ~result.panicked
    /\ Len(result.oks) < Len(call.metrics)
    /\ LET r == Registry_add(result.regs[Len(result.regs)],
                             call.metrics[Len(result.oks) + 1], overflow_checks)
       IN  result' = IF r.panicked THEN [result EXCEPT !.panicked = TRUE]
                     ELSE [result EXCEPT !.regs = Append(@, r.registry),
                                         !.oks = Append(@, r.ok)]
    /\ UNCHANGED <<daemon_vars, call>>

\* the single metric is added to the registry the call started from
AddEquivalent ==
    /\ call.fn = "adds"
    /\ ~result.equivalent.set
    /\ HasEquivalent(call.metrics)
    /\ result' = [result EXCEPT !.equivalent =
                     [set |-> TRUE,
                      ret |-> Registry_add(call.registry, EquivalentOf(call.metrics),
                                           overflow_checks)]]
    /\ UNCHANGED <<daemon_vars, call>>

SpecAdds == AddsInit /\ [][AddNext \/ AddEquivalent]_vars

\* the value of the gauge for a Modify: 0 when it is absent
GaugeOrZero(reg, name) == IF name \in DOMAIN reg.gauges THEN reg.gauges[name] ELSE Wide(0)

InI64(n) == WLe(I64_MIN, n) /\ WLe(n, I64_MAX)

\* Modify(a) then Modify(b) of one gauge were added, and Modify(a + b) on its own
ModifiedTwice ==
    /\ result.fn = "adds"
    /\ Len(call.metrics) = 2
    /\ IsModify(call.metrics[1])
    /\ IsModify(call.metrics[2])
    /\ call.metrics[1].name = call.metrics[2].name
    /\ Len(result.oks) = 2
    /\ result.equivalent.set

\* C13: when neither the sum of the gauge and a nor that sum and b overflows
\* i64, Modify(a) then Modify(b) leaves the gauges as the single Modify(a + b)
\* does, the gauge holding the starting value plus a plus b, and every add
\* returns true.
C13_GaugeComposition ==
    ModifiedTwice =>
        LET name == call.metrics[1].name
            start == GaugeOrZero(call.registry, name)
            a == call.metrics[1].kind.value
            b == call.metrics[2].kind.value
        IN  InI64(WAdd(start, a)) /\ InI64(WAdd(WAdd(start, a), b)) =>
                /\ result.oks = <<TRUE, TRUE>>
                /\ result.equivalent.ret.ok
                /\ result.regs[3].gauges = result.equivalent.ret.registry.gauges
                /\ result.regs[3].gauges[name] = WAdd(WAdd(start, a), b)

\* +5 then -3 on a gauge at 1, and +2 on its own: both leave 3
C13_Witness ==
    /\ ModifiedTwice
    /\ call.registry.gauges = [n \in {<<"g">>} |-> Wide(1)]
    /\ call.metrics[1].kind.value = Wide(5)
    /\ call.metrics[2].kind.value = Wide(-3)
    /\ result.regs[3].gauges[<<"g">>] = Wide(3)
    /\ result.equivalent.ret.registry.gauges[<<"g">>] = Wide(3)

RECURSIVE DeltaSum(_, _)
\* the sum of the deltas of the first k metrics, in integers
DeltaSum(ms, k) ==
    IF k = 0 THEN Wide(0) ELSE WAdd(DeltaSum(ms, k - 1), ms[k].kind.value)

\* every metric of the call is a Modify of one gauge the registry does not hold,
\* and no sum of the first deltas overflows
ModifiesAbsentGauge ==
    /\ result.fn = "adds"
    /\ \A k \in 1..Len(call.metrics) :
          /\ IsModify(call.metrics[k])
          /\ call.metrics[k].name = call.metrics[1].name
          /\ InI64(DeltaSum(call.metrics, k))
    /\ call.metrics[1].name \notin DOMAIN call.registry.gauges

\* C14: Modify of an absent gauge counts it as 0 and creates it: after each of
\* the Modify of the call, the gauge holds the sum of the deltas so far, and
\* every add returned true.
C14_ModifyCreatesGaugeFromZero ==
    ModifiesAbsentGauge =>
        \A k \in 1..Len(result.oks) :
            /\ result.oks[k]
            /\ call.metrics[1].name \in DOMAIN result.regs[k + 1].gauges
            /\ result.regs[k + 1].gauges[call.metrics[1].name] = DeltaSum(call.metrics, k)

\* +5, +5, -3 on an absent gauge: 7
C14_Witness ==
    /\ ModifiesAbsentGauge
    /\ Len(call.metrics) = 3
    /\ call.metrics[1].kind.value = Wide(5)
    /\ call.metrics[2].kind.value = Wide(5)
    /\ call.metrics[3].kind.value = Wide(-3)
    /\ Len(result.oks) = 3
    /\ result.regs[4].gauges[<<"g">>] = Wide(7)

\* nanoseconds per unit
NsPer(r) ==
    CASE r = Seconds -> 1000000000
      [] r = MilliSeconds -> 1000000
      [] r = MicroSeconds -> 1000
      [] r = NanoSeconds -> 1

\* the k-th metric of the call is a Timing whose product with its factor is a u64
FittingTiming(k) ==
    /\ call.metrics[k].kind.kind = "Timing"
    /\ WLe(WMul(call.metrics[k].kind.value, Wide(NsPer(call.metrics[k].kind.resolution))),
           U64_MAX)

\* the k-th add pushed the value in nanoseconds, and changed nothing else
StoredInNanoseconds(k) ==
    LET m == call.metrics[k]
        before == result.regs[k]
        after == result.regs[k + 1]
    IN  /\ result.oks[k]
        /\ after.timings =
              MapInsert(before.timings, m.name,
                        Append(SamplesIn(before, "timings", m.name),
                               WMul(m.kind.value, Wide(NsPer(m.kind.resolution)))))
        /\ after.counters = before.counters
        /\ after.gauges = before.gauges

\* C17: add of Timing(n, r) whose product fits in u64 pushes n * factor(r)
\* nanoseconds (s 10^9, ms 10^6, us 10^3, ns 1) and returns true, so that
\* Timing(n, r) leaves the registry as Timing(n * factor(r), ns) does.
C17_TimingNormalization ==
    result.fn = "adds" =>
        /\ \A k \in 1..Len(result.oks) : FittingTiming(k) => StoredInNanoseconds(k)
        /\ Len(call.metrics) = 1 /\ FittingTiming(1) /\ Len(result.oks) = 1
           /\ result.equivalent.set
           => /\ result.equivalent.ret.ok
              /\ result.regs[2] = result.equivalent.ret.registry

\* Timing(1, s) and Timing(1000000000, ns) were added to the empty registry: both
\* left the one sample 1000000000
C17_Witness ==
    /\ result.fn = "adds"
    /\ call.registry = EmptyRegistry
    /\ call.metrics = <<Metric(<<"t">>, Timing(Wide(1), Seconds))>>
    /\ Len(result.oks) = 1
    /\ result.equivalent.set
    /\ result.regs[2].timings[<<"t">>] = <<Wide(1000000000)>>
    /\ result.equivalent.ret.registry.timings[<<"t">>] = <<Wide(1000000000)>>

RECURSIVE CounterValues(_, _, _)
\* the values of the Counter metrics of the name among the first k of the call
CounterValues(ms, k, name) ==
    IF k = 0 THEN << >>
    ELSE CounterValues(ms, k - 1, name)
         \o (IF ms[k].kind.kind = "Counter" /\ ms[k].name = name
             THEN <<ms[k].kind.value>> ELSE << >>)

\* C18: add of Counter(v) returns true and appends v to the list of the name,
\* leaving the other series as they were: after each add the list of every name
\* is the list the registry started with followed by the values added for the
\* name, in the order added.
C18_CounterAppends ==
    result.fn = "adds" =>
        \A k \in 1..Len(result.oks) :
            LET names == DOMAIN call.registry.counters
                             \cup {call.metrics[j].name : j \in {i \in 1..k : call.metrics[i].kind.kind = "Counter"}}
            IN  /\ DOMAIN result.regs[k + 1].counters = names
                /\ \A name \in names :
                      result.regs[k + 1].counters[name] =
                          SamplesIn(call.registry, "counters", name)
                              \o CounterValues(call.metrics, k, name)
                /\ call.metrics[k].kind.kind = "Counter" =>
                      /\ result.oks[k]
                      /\ result.regs[k + 1].gauges = result.regs[k].gauges
                      /\ result.regs[k + 1].timings = result.regs[k].timings

\* 2, 1 and 1 were added for two names to a registry that held 7 for the first
C18_Witness ==
    /\ result.fn = "adds"
    /\ call.registry.counters = [n \in {<<"a">>} |-> <<Wide(7)>>]
    /\ call.metrics = <<Metric(<<"a">>, Counter(Wide(2))), Metric(<<"b">>, Counter(Wide(1))),
                        Metric(<<"a">>, Counter(Wide(1)))>>
    /\ Len(result.oks) = 3
    /\ result.regs[4].counters[<<"a">>] = <<Wide(7), Wide(2), Wide(1)>>
    /\ result.regs[4].counters[<<"b">>] = <<Wide(1)>>

(***************************************************************************)
(* Gauge Modify records on their own: parse_protocol applied to the text   *)
(* name|g|+=N or name|g|-=N for magnitudes N around the ends of i64 and    *)
(* of u64, written with or without a leading zero.                         *)
(***************************************************************************)
\* how far around 0, i64::MAX and u64::MAX the magnitudes go
ModifyMargin == 3

\* the magnitudes within the margin of 0, of i64::MAX and of u64::MAX
ModifyMagnitudes ==
    {Wide(d) : d \in 0..ModifyMargin}
        \cup {WAdd(I64_MAX, Wide(d)) : d \in (-ModifyMargin)..ModifyMargin}
        \cup {WAdd(U64_MAX, Wide(d)) : d \in (-ModifyMargin)..ModifyMargin}

\* the record g|g|+=N or g|g|-=N, the digits of N after leading zeros
ModifyText(sign, zeros, magnitude) ==
    <<"g", BAR, "g", BAR, sign, "=">> \o [i \in 1..zeros |-> "0"] \o ToDecimal(magnitude)

ModifyCalls ==
    { [fn |-> "parse_modify", sign |-> sign, zeros |-> z, magnitude |-> n] :
        sign \in {"+", "-"}, z \in 0..1, n \in ModifyMagnitudes }

ModifyInit ==
    /\ DaemonInit
    /\ call \in ModifyCalls
    /\ result = NoCall

ParseModifyCall ==
    /\ call.fn = "parse_modify"
    /\ result = NoCall
    /\ result' = [fn |-> "parse_modify",
                  metrics |-> parse_protocol(ModifyText(call.sign, call.zeros,
                                                        call.magnitude))]
    /\ UNCHANGED <<daemon_vars, call>>

SpecModify == ModifyInit /\ [][ParseModifyCall]_vars

\* the record was parsed to the Modify of its magnitude with its sign
ModifyAccepted ==
    result.metrics =
        <<Metric(<<"g">>, GaugeModify(IF call.sign = "+" THEN call.magnitude
                                      ELSE WNeg(call.magnitude)))>>

\* C22 as stated: a Modify record +=N or -=N is parsed, to the Modify of N with
\* the sign applied, exactly when N fits in an unsigned 64-bit integer, and
\* parses to nothing when N is above that.
C22_ModifyMagnitudeU64 ==
    result.fn = "parse_modify" =>
        IF WLe(call.magnitude, U64_MAX) THEN ModifyAccepted ELSE result.metrics = << >>

\* C22 as amended: a Modify record +=N or -=N is parsed, to the Modify of N with
\* the sign applied, exactly when N fits in a signed 64-bit integer (N is at
\* most i64::MAX), and parses to nothing when N is above that.
C22_ModifyMagnitudeI64 ==
    result.fn = "parse_modify" =>
        IF WLe(call.magnitude, I64_MAX) THEN ModifyAccepted ELSE result.metrics = << >>

\* -= of i64::MAX was parsed to Modify(-i64::MAX)
C22_Witness ==
    /\ result.fn = "parse_modify"
    /\ call.sign = "-"
    /\ call.zeros = 0
    /\ call.magnitude = I64_MAX
    /\ result.metrics = <<Metric(<<"g">>, GaugeModify(WNeg(I64_MAX)))>>

(***************************************************************************)
(* One datagram on its own: main's for loop over the records of a datagram *)
(* (ApplyAccepted, ApplyOverflow, ApplyPanics), started on a registry that *)
(* earlier datagrams have left, with the records still to add.             *)
(***************************************************************************)
\* records of a datagram
MaxDatagramRecords == 3

DatagramMetrics ==
    { Metric(<<"g">>, GaugeModify(Wide(1))), Metric(<<"g">>, GaugeModify(Wide(-1))),
      Metric(<<"g">>, GaugeSet(I64_MAX)), Metric(<<"h">>, GaugeSet(Wide(3))),
      Metric(<<"a">>, Counter(Wide(1))), Metric(<<"a">>, Counter(Wide(2))),
      Metric(<<"t">>, Timing(Wide(3), MicroSeconds)),
      Metric(<<"t">>, Timing(U64_MAX, Seconds)) }

DatagramRegistries ==
    { EmptyRegistry,
      [counters |-> [n \in {<<"a">>} |-> <<Wide(7)>>],
       gauges |-> [n \in {<<"g">>} |-> I64_MAX],
       timings |-> EmptyMap],
      [counters |-> EmptyMap,
       gauges |-> [n \in {<<"g">>, <<"h">>} |-> IF n = <<"g">> THEN I64_MIN ELSE Wide(4)],
       timings |-> [n \in {<<"t">>} |-> <<Wide(9)>>]] }

DatagramCalls ==
    { [fn |-> "datagram", registry |-> r, metrics |-> ms] :
        r \in DatagramRegistries,
        ms \in UNION {[1..n -> DatagramMetrics] : n \in 1..MaxDatagramRecords} }

\* recv has returned the datagram and the for loop is about to take its first record
DatagramInit ==
    /\ overflow_checks \in BOOLEAN
    /\ call \in DatagramCalls
    /\ result = NoCall
    /\ pc = "apply"
    /\ registry = call.registry
    /\ pending = call.metrics
    /\ clock = 0
    /\ now = 0
    /\ timeout = SomeTimeout(RefreshInterval)
    /\ recv_start = 0
    /\ workers = << >>
    /\ frame_no = 1
    /\ accepted = << >>
    /\ touched = {}
    /\ received = 1

SpecDatagram == DatagramInit /\ [][ApplyAccepted \/ ApplyOverflow \/ ApplyPanics]_vars

\* the records of the datagram the for loop has handled
Done == Len(call.metrics) - Len(pending)

RECURSIVE AddAll(_, _, _, _)
\* the records from..to added to reg in order, when add returns true for each
AddAll(reg, ms, from, to) ==
    IF from > to THEN [ok |-> TRUE, registry |-> reg]
    ELSE LET r == Registry_add(reg, ms[from], overflow_checks)
         IN  IF r.ok /\ ~r.panicked THEN AddAll(r.registry, ms, from + 1, to)
             ELSE [ok |-> FALSE, registry |-> reg]

\* a registry with the gauges of reg and nothing else
CarriedOver(reg) == [counters |-> EmptyMap, gauges |-> reg.gauges, timings |-> EmptyMap]

\* the registry the records after the j-th rejected one are added to
StartAfter(j) == IF j = 0 THEN call.registry ELSE CarriedOver(workers[j].registry)

\* ks[j] is the record the j-th flush of the datagram was for: the registry
\* handed over by that flush holds the records between the one rejected before
\* and ks[j], add returns false for ks[j] on it, and the live registry holds the
\* records after the last rejected one
SplitAt(ks) ==
    /\ \A j \in 1..Len(workers) :
          LET first == IF j = 1 THEN 1 ELSE ks[j - 1] + 1
              seg == AddAll(StartAfter(j - 1), call.metrics, first, ks[j] - 1)
          IN  /\ first <= ks[j]
              /\ ks[j] <= Done
              /\ seg.ok
              /\ workers[j].registry = seg.registry
              /\ ~Registry_add(seg.registry, call.metrics[ks[j]], overflow_checks).ok
    /\ LET n == Len(workers)
           first == IF n = 0 THEN 1 ELSE ks[n] + 1
           seg == AddAll(StartAfter(n), call.metrics, first, Done)
       IN  /\ seg.ok
           /\ registry = seg.registry

\* C23: the records of a datagram are added in order, and when add returns
\* false for record k the registry handed over holds records 1..k-1, record k is
\* in no registry, and the records after k are added to a registry that starts
\* from the gauges of the one handed over.
C23_OverflowSplitsDatagram ==
    call.fn = "datagram" /\ pc # "panicked" =>
        /\ pending = SubSeq(call.metrics, Done + 1, Len(call.metrics))
        /\ \E ks \in [1..Len(workers) -> 1..Len(call.metrics)] : SplitAt(ks)

\* a counter, an increment of a gauge at i64::MAX and a counter: the first
\* counter went out with the old registry, the second is in the new one, and the
\* gauge is carried over as it was
C23_Witness ==
    /\ call.fn = "datagram"
    /\ call.metrics = <<Metric(<<"a">>, Counter(Wide(1))), Metric(<<"g">>, GaugeModify(Wide(1))),
                        Metric(<<"a">>, Counter(Wide(2)))>>
    /\ pc = "loop"
    /\ Len(workers) = 1
    /\ workers[1].registry.counters[<<"a">>] = <<Wide(7), Wide(1)>>
    /\ workers[1].registry.gauges[<<"g">>] = I64_MAX
    /\ registry.counters[<<"a">>] = <<Wide(2)>>
    /\ registry.gauges[<<"g">>] = I64_MAX

=============================================================================
